---- MODULE Spec2Model ----
(***************************************************************************)
(* KlassIQ lesson generator: the curriculum lookup, the context formatter, *)
(* the model call with its fallbacks, the interpretation of the reply and  *)
(* the file cache of backend/core/lesson_generator.py.                     *)
(*                                                                         *)
(* Text is a TLA+ string (Len, SubSeq and \o act on it character by        *)
(* character).  The en dash of the canonical grade names (U+2013) is       *)
(* written "-" here; no input of the model contains a hyphen.  The         *)
(* superscript two (U+00B2), a character for which str.isdigit() is true   *)
(* and int() raises, is written "^".                                       *)
(* A JSON value (a Python dict, list, str, int, None/True/False) is a      *)
(* record [t, s, keys, kids]: t is the type, s the text of a string,       *)
(* number or literal, keys the keys of a dict in insertion order and kids  *)
(* the values of a dict or the items of a list.                            *)
(***************************************************************************)
EXTENDS Integers, Sequences, FiniteSets, TLC

VARIABLES
    environ,     \* the environment of the process, read when the module loads
    curriculum,  \* the curriculum map file
    cache,       \* the cache directory: key -> text of the file
    calls,       \* calls of generate_lesson_plan so far
    req,         \* the arguments of the last call
    out          \* what the last call did

vars == <<environ, curriculum, cache, calls, req, out>>

----------------------------------------------------------------------------
(* Bounds of the model *)

\* container layers wrapped around a subject tree in the documents
MaxNest == 2
\* lexemes in an enumerated model reply
MaxReplyLen == 4
\* calls of generate_lesson_plan in one behaviour
MaxCalls == 2

----------------------------------------------------------------------------
(* Python strings *)

Ch(s, i) == SubSeq(s, i, i)

UpperChars == "ABCDEFGHIJKLMNOPQRSTUVWXYZ"

LowerChars == "abcdefghijklmnopqrstuvwxyz"

Whitespace == {" ", "\t", "\n", "\r"}

Digits == {"0", "1", "2", "3", "4", "5", "6", "7", "8", "9"}

LowerChar(c) ==
    IF \E i \in 1..26 : Ch(UpperChars, i) = c
    THEN Ch(LowerChars, CHOOSE i \in 1..26 : Ch(UpperChars, i) = c)
    ELSE c

RECURSIVE Lower(_)
\* str.lower()
Lower(s) ==
    IF Len(s) = 0 THEN ""
    ELSE IF Len(s) = 1 THEN LowerChar(s)
    ELSE LET h == Len(s) \div 2
         IN  Lower(SubSeq(s, 1, h)) \o Lower(SubSeq(s, h + 1, Len(s)))

RECURSIVE FirstNonWs(_, _)
FirstNonWs(s, i) ==
    IF i > Len(s) THEN i
    ELSE IF Ch(s, i) \in Whitespace THEN FirstNonWs(s, i + 1) ELSE i

RECURSIVE LastNonWs(_, _)
LastNonWs(s, i) ==
    IF i < 1 THEN i
    ELSE IF Ch(s, i) \in Whitespace THEN LastNonWs(s, i - 1) ELSE i

\* str.strip()
Strip(s) == SubSeq(s, FirstNonWs(s, 1), LastNonWs(s, Len(s)))

\* needle in hay
Contains(hay, needle) ==
    \E i \in 0..(Len(hay) - Len(needle)) :
        SubSeq(hay, i + 1, i + Len(needle)) = needle

RECURSIVE Rep(_, _)
\* s * n
Rep(s, n) ==
    IF n = 0 THEN ""
    ELSE LET h == Rep(s, n \div 2)
         IN  IF n % 2 = 0 THEN h \o h ELSE h \o h \o s

RECURSIVE JoinStr(_, _)
\* sep.join(parts) for a list of strings
JoinStr(sep, parts) ==
    IF Len(parts) = 0 THEN ""
    ELSE IF Len(parts) = 1 THEN parts[1]
    ELSE parts[1] \o sep \o JoinStr(sep, Tail(parts))

----------------------------------------------------------------------------
(* JSON values *)

JStr(s) == [t |-> "str", s |-> s, keys |-> <<>>, kids |-> <<>>]

JNum(s) == [t |-> "num", s |-> s, keys |-> <<>>, kids |-> <<>>]

JLit(s) == [t |-> "lit", s |-> s, keys |-> <<>>, kids |-> <<>>]

JArr(items) == [t |-> "arr", s |-> "", keys |-> <<>>, kids |-> items]

JObj(ks, vs) == [t |-> "obj", s |-> "", keys |-> ks, kids |-> vs]

JNull == JLit("null")

EmptyList == JArr(<<>>)

IsDict(v) == v.t = "obj"

IsList(v) == v.t = "arr"

IsStr(v) == v.t = "str"

\* k in d, for a dict d
HasKey(d, k) == \E i \in 1..Len(d.keys) : d.keys[i] = k

\* d[k], for a dict d that has k
Get(d, k) == d.kids[CHOOSE i \in 1..Len(d.keys) : d.keys[i] = k]

\* d.get(k, dflt)
GetOr(d, k, dflt) == IF HasKey(d, k) THEN Get(d, k) ELSE dflt

\* d[k] = v: a new key is appended, an old key keeps its place
SetKey(d, k, v) ==
    IF HasKey(d, k)
    THEN [d EXCEPT !.kids = [i \in 1..Len(d.kids) |->
                                IF d.keys[i] = k THEN v ELSE d.kids[i]]]
    ELSE [d EXCEPT !.keys = Append(d.keys, k), !.kids = Append(d.kids, v)]

\* bool(v)
Truthy(v) ==
    CASE v.t = "str" -> v.s # ""
      [] v.t = "num" -> v.s # "0"
      [] v.t = "lit" -> v.s = "true"
      [] OTHER -> Len(v.kids) > 0

\* str() of a list of plain strings, as an f-string prints it
ListRepr(list) ==
    "[" \o JoinStr(", ", [i \in 1..Len(list.kids) |-> "'" \o list.kids[i].s \o "'"])
        \o "]"

----------------------------------------------------------------------------
(* normalize_grade, normalize_subject *)

JuniorSecondary == "Junior Secondary 1-3"

LowerPrimary == "Primary 1-3"

UpperPrimary == "Primary 4-6"

SuperscriptTwo == "^"

\* the characters for which str.isdigit() is true: the decimal digits, and
\* digits that are not decimal
IsDigitChars == Digits \cup {SuperscriptTwo}

\* the first character of s for which isdigit() is true, "" when there is none
FirstDigit(s) ==
    LET idx == {i \in 1..Len(s) : Ch(s, i) \in IsDigitChars}
    IN  IF idx = {} THEN ""
        ELSE Ch(s, CHOOSE i \in idx : \A j \in idx : i <= j)

\* what a normalizer does: it returns the string ret, or it raises exc
Returns(ret) == [raised |-> FALSE, exc |-> "", ret |-> ret]

Raises(exc) == [raised |-> TRUE, exc |-> exc, ret |-> ""]

\* the bands, each under the digits of the other
PrimaryBandSwapped(d) ==
    IF d \in IsDigitChars \ Digits
    THEN Raises("invalid literal for int() with base 10: '" \o d \o "'")
    ELSE IF d \in {"1", "2", "3"} THEN Returns(UpperPrimary)
    ELSE IF d \in {"4", "5", "6"} THEN Returns(LowerPrimary)
    ELSE Returns(LowerPrimary)

\* lines 70-80: the band of the first digit; int(char) raises a ValueError
\* for a digit that is not decimal
PrimaryBand(d) ==
    IF d \in IsDigitChars \ Digits
    THEN Raises("invalid literal for int() with base 10: '" \o d \o "'")
    ELSE IF d \in {"1", "2", "3"} THEN Returns(LowerPrimary)
    ELSE IF d \in {"4", "5", "6"} THEN Returns(UpperPrimary)
    ELSE Returns(LowerPrimary)

\* a match on "jss" alone
HasJuniorTermJssOnly(grade_lower) == Contains(grade_lower, "jss")

\* line 65
HasJuniorTerm(grade_lower) ==
    \E term \in {"jss", "junior secondary", "js"} : Contains(grade_lower, term)

normalize_grade(grade) ==
    LET grade_lower == Strip(Lower(grade))
    IN  IF HasJuniorTerm(grade_lower)
        THEN Returns(JuniorSecondary)
        ELSE IF Contains(grade_lower, "primary") \/ Contains(grade_lower, "pri")
        THEN PrimaryBand(FirstDigit(grade_lower))
        ELSE CASE grade_lower = "junior secondary 1-3" -> Returns(JuniorSecondary)
               [] grade_lower = "primary 1-3" -> Returns(LowerPrimary)
               [] grade_lower = "primary 4-6" -> Returns(UpperPrimary)
               [] OTHER -> Returns(grade)

subject_mappings ==
    << <<"english", "english_studies">>,
       <<"mathematics", "maths">>,
       <<"math", "maths">>,
       <<"science", "basic_science_technology">>,
       <<"basic science", "basic_science_technology">>,
       <<"technology", "basic_science_technology">>,
       <<"creative arts", "cca">>,
       <<"arts", "cca">>,
       <<"cca", "cca">>,
       <<"christian religious studies", "crs">>,
       <<"crs", "crs">>,
       <<"islamic studies", "islamic">>,
       <<"islamic", "islamic">>,
       <<"hausa", "hausa">>,
       <<"igbo", "igbo">>,
       <<"yoruba", "yoruba">>,
       <<"french", "french">>,
       <<"arabic", "arabic">>,
       <<"history", "history">>,
       <<"nvc", "nvc">>,
       <<"prevoc", "prevoc">> >>

\* the lower-cased input, padding kept
subject_lower_untrimmed(subject) == Lower(subject)

\* line 102
subject_lower(subject) == Strip(Lower(subject))

normalize_subject(subject) ==
    LET hit == {i \in 1..Len(subject_mappings) :
                   subject_mappings[i][1] = subject_lower(subject)}
    IN  IF hit = {} THEN subject
        ELSE subject_mappings[CHOOSE i \in hit : TRUE][2]

----------------------------------------------------------------------------
(* get_curriculum_objectives *)

PyTypeName(v) ==
    CASE v.t = "obj" -> "dict"
      [] v.t = "arr" -> "list"
      [] v.t = "str" -> "str"
      [] v.t = "num" -> "int"
      [] v.s = "null" -> "NoneType"
      [] OTHER -> "bool"

\* the outcome of an expression: a value, or an exception with its text
Ok(v) == [raised |-> FALSE, exc |-> "", ret |-> v]

Raise(msg) == [raised |-> TRUE, exc |-> msg, ret |-> JNull]

\* x in c, for a string x
MemberTest(x, c) ==
    CASE c.t = "obj" -> Ok(IF HasKey(c, x) THEN JLit("true") ELSE JLit("false"))
      [] c.t = "arr" ->
            Ok(IF \E i \in 1..Len(c.kids) : c.kids[i] = JStr(x)
               THEN JLit("true") ELSE JLit("false"))
      [] c.t = "str" ->
            Ok(IF Contains(c.s, x) THEN JLit("true") ELSE JLit("false"))
      [] OTHER -> Raise("argument of type '" \o PyTypeName(c) \o "' is not iterable")

\* a listing that loses the first key
KeysOfDropsFirst(c) ==
    IF IsDict(c)
    THEN Ok(JArr([i \in 1..(Len(c.keys) - 1) |-> JStr(c.keys[i + 1])]))
    ELSE Raise("'" \o PyTypeName(c) \o "' object has no attribute 'keys'")

\* list(c.keys())
KeysOf(c) ==
    IF IsDict(c) THEN Ok(JArr([i \in 1..Len(c.keys) |-> JStr(c.keys[i])]))
    ELSE Raise("'" \o PyTypeName(c) \o "' object has no attribute 'keys'")

\* c[k], for a string k
Subscript(c, k) ==
    CASE c.t = "obj" -> IF HasKey(c, k) THEN Ok(Get(c, k)) ELSE Raise("'" \o k \o "'")
      [] c.t = "arr" -> Raise("list indices must be integers or slices, not str")
      [] c.t = "str" -> Raise("string indices must be integers")
      [] OTHER -> Raise("'" \o PyTypeName(c) \o "' object is not subscriptable")

ErrorResult(msg) ==
    JObj(<<"error", "objectives", "content", "teacher_activities",
           "student_activities", "resources">>,
         <<JStr(msg), EmptyList, EmptyList, EmptyList, EmptyList, EmptyList>>)

\* what a search returns: nothing, the topic record, or an exception
NoHit == [kind |-> "none", item |-> JNull, exc |-> ""]

Hit(item) == [kind |-> "hit", item |-> item, exc |-> ""]

Fault(msg) == [kind |-> "raise", item |-> JNull, exc |-> msg]

RECURSIVE Flatten(_)
Flatten(ss) == IF Len(ss) = 0 THEN <<>> ELSE Head(ss) \o Flatten(Tail(ss))

IsTopicItem(x) == IsDict(x) /\ HasKey(x, "TOPIC NAME")

\* the topic items the loops of lines 207-212 visit under one sub-theme
TopicsOfSubTheme(sub_theme) ==
    IF IsDict(sub_theme) /\ HasKey(sub_theme, "TOPICS")
    THEN LET topics == Get(sub_theme, "TOPICS")
         IN  IF IsList(topics) THEN SelectSeq(topics.kids, IsTopicItem) ELSE <<>>
    ELSE <<>>

\* the topic items the loops of lines 203-212 visit under one theme, in order
TopicsOfTheme(theme) ==
    IF IsDict(theme) /\ HasKey(theme, "SUB THEMES")
    THEN LET sub_themes == Get(theme, "SUB THEMES")
         IN  IF IsList(sub_themes)
             THEN Flatten([i \in 1..Len(sub_themes.kids) |->
                              TopicsOfSubTheme(sub_themes.kids[i])])
             ELSE <<>>
    ELSE <<>>

\* the topic items the loops of lines 200-212 visit at one dictionary, in order
TopicsOfLevel(data) ==
    IF HasKey(data, "THEMES")
    THEN LET themes == Get(data, "THEMES")
         IN  IF IsList(themes)
             THEN Flatten([i \in 1..Len(themes.kids) |->
                              TopicsOfTheme(themes.kids[i])])
             ELSE <<>>
    ELSE <<>>

\* a match that only accepts a query contained in the topic name
TopicMatchesOneWay(name, search_topic_lower) ==
    Contains(Strip(Lower(name)), search_topic_lower)

\* lines 213-214 for one topic name and the lower-cased, trimmed query
TopicMatches(name, search_topic_lower) ==
    LET topic_name == Strip(Lower(name))
    IN  Contains(topic_name, search_topic_lower)
        \/ Contains(search_topic_lower, topic_name)

RECURSIVE ScanTopics(_, _, _)
\* lines 211-215: the first topic item that matches, or the exception of a
\* topic name that has no lower()
ScanTopics(items, i, search_topic_lower) ==
    IF i > Len(items) THEN NoHit
    ELSE LET name == Get(items[i], "TOPIC NAME")
         IN  IF ~IsStr(name)
             THEN Fault("'" \o PyTypeName(name) \o "' object has no attribute 'lower'")
             ELSE IF TopicMatches(name.s, search_topic_lower)
             THEN Hit(items[i])
             ELSE ScanTopics(items, i + 1, search_topic_lower)

RECURSIVE search_topic_recursive(_, _)
RECURSIVE SearchChildren(_, _, _)
\* lines 218-222 and 225-229: the children in order, the first result wins
SearchChildren(children, i, search_topic) ==
    IF i > Len(children) THEN NoHit
    ELSE LET value == children[i]
             result == IF IsDict(value) \/ IsList(value)
                       THEN search_topic_recursive(value, search_topic)
                       ELSE NoHit
         IN  IF result.kind # "none" THEN result
             ELSE SearchChildren(children, i + 1, search_topic)

\* a search that looks below a dictionary before it looks at its own themes
search_topic_children_first(data, search_topic) ==
    IF IsDict(data)
    THEN LET below == SearchChildren(data.kids, 1, search_topic)
         IN  IF below.kind # "none" THEN below
             ELSE ScanTopics(TopicsOfLevel(data), 1, Strip(Lower(search_topic)))
    ELSE IF IsList(data) THEN SearchChildren(data.kids, 1, search_topic)
    ELSE NoHit

search_topic_recursive(data, search_topic) ==
    LET search_topic_lower == Strip(Lower(search_topic))
    IN  IF IsDict(data)
        THEN LET direct == ScanTopics(TopicsOfLevel(data), 1, search_topic_lower)
             IN  IF direct.kind # "none" THEN direct
                 ELSE SearchChildren(data.kids, 1, search_topic)
        ELSE IF IsList(data) THEN SearchChildren(data.kids, 1, search_topic)
        ELSE NoHit

\* a projection that tries the legacy key of the pupils' activities first
ProjectTopicLegacyFirst(topic_data) ==
    LET result ==
            JObj(<<"objectives", "content", "teacher_activities",
                   "student_activities", "resources">>,
                 <<GetOr(topic_data, "PERFORMANCE OBJECTIVES", EmptyList),
                   GetOr(topic_data, "CONTENT", EmptyList),
                   GetOr(topic_data, "TEACHER ACTIVITIES", EmptyList),
                   GetOr(topic_data, "PUPILS ACTIVITIES",
                         GetOr(topic_data, "STUDENTS ACTIVITIES", EmptyList)),
                   GetOr(topic_data, "TEACHING AND LEARNING RESOURCES", EmptyList)>>)
    IN  IF HasKey(topic_data, "TOPIC NAME")
        THEN SetKey(result, "topic_name", Get(topic_data, "TOPIC NAME"))
        ELSE result

\* lines 246-259: the topic record as a lookup result
ProjectTopic(topic_data) ==
    LET result ==
            JObj(<<"objectives", "content", "teacher_activities",
                   "student_activities", "resources">>,
                 <<GetOr(topic_data, "PERFORMANCE OBJECTIVES", EmptyList),
                   GetOr(topic_data, "CONTENT", EmptyList),
                   GetOr(topic_data, "TEACHER ACTIVITIES", EmptyList),
                   GetOr(topic_data, "STUDENTS ACTIVITIES",
                         GetOr(topic_data, "PUPILS ACTIVITIES", EmptyList)),
                   GetOr(topic_data, "TEACHING AND LEARNING RESOURCES", EmptyList)>>)
    IN  IF HasKey(topic_data, "TOPIC NAME")
        THEN SetKey(result, "topic_name", Get(topic_data, "TOPIC NAME"))
        ELSE result

\* lines 233-259, once grade and subject are found
LookupTopic(subject_data, grade, subject, topic) ==
    LET found == search_topic_recursive(subject_data, topic)
    IN  IF found.kind = "raise" THEN Raise(found.exc)
        ELSE IF found.kind = "none" \/ ~Truthy(found.item)
        THEN Ok(ErrorResult("Topic '" \o topic \o "' not found in " \o subject
                            \o " for " \o grade))
        ELSE Ok(ProjectTopic(found.item))

\* lines 177-191, once the grade is found
LookupSubject(grade_data, grade, subject, topic) ==
    LET has == MemberTest(subject, grade_data)
        available_subjects == KeysOf(grade_data)
        subject_data == Subscript(grade_data, subject)
    IN  IF has.raised THEN Raise(has.exc)
        ELSE IF has.ret = JLit("false")
        THEN IF available_subjects.raised THEN Raise(available_subjects.exc)
             ELSE Ok(ErrorResult("Subject '" \o subject \o "' not found in " \o grade
                        \o ". Available subjects: "
                        \o ListRepr(available_subjects.ret)))
        ELSE IF subject_data.raised THEN Raise(subject_data.exc)
        ELSE LookupTopic(subject_data.ret, grade, subject, topic)


\* lines 165-191, once the document is loaded
LookupGrade(curriculum_data, grade, subject, topic) ==
    LET has == MemberTest(grade, curriculum_data)
        available_grades == KeysOf(curriculum_data)
        grade_data == Subscript(curriculum_data, grade)
    IN  IF has.raised THEN Raise(has.exc)
        ELSE IF has.ret = JLit("false")
        THEN IF available_grades.raised THEN Raise(available_grades.exc)
             ELSE Ok(ErrorResult("Grade '" \o grade \o "' not found. Available grades: "
                        \o ListRepr(available_grades.ret)))
        ELSE IF grade_data.raised THEN Raise(grade_data.exc)
        ELSE LookupSubject(grade_data.ret, grade, subject, topic)

\* lines 150-259, with the normalized grade
LookupFile(file, grade, subject, topic) ==
    IF ~file.exists
    THEN Ok(ErrorResult("Curriculum map not found. Please run merge_curriculums.py first."))
    ELSE IF ~file.loads THEN Raise("Expecting value: line 1 column 1 (char 0)")
    ELSE LookupGrade(file.data, grade, normalize_subject(subject), topic)

\* lines 146-259
Normalized(file, normalized, subject, topic) ==
    IF normalized.raised THEN Raise(normalized.exc)
    ELSE LookupFile(file, normalized.ret, subject, topic)

\* the body of the try block, lines 145-259; file is the curriculum map on disk
LookupBody(file, grade, subject, topic) ==
    Normalized(file, normalize_grade(grade), subject, topic)

\* a handler that catches lookup errors of keys and indices only
LookupCatchesKeyErrors(body) == body.raised /\ ~Contains(body.exc, "attribute")

\* except Exception (line 261): every exception of the body is caught
LookupCatches(body) == body.raised

\* a lookup that keeps the file open and finds it exhausted on the next call
get_curriculum_objectives_once(file, grade, subject, topic) ==
    LET body == IF calls > 0 THEN Raise("Expecting value: line 1 column 1 (char 0)")
                ELSE LookupBody(file, grade, subject, topic)
    IN  IF body.raised /\ LookupCatches(body)
        THEN Ok(ErrorResult("Error retrieving curriculum objectives: " \o body.exc))
        ELSE body

get_curriculum_objectives(file, grade, subject, topic) ==
    LET body == LookupBody(file, grade, subject, topic)
    IN  IF body.raised /\ LookupCatches(body)
        THEN Ok(ErrorResult("Error retrieving curriculum objectives: " \o body.exc))
        ELSE body

----------------------------------------------------------------------------
(* Curriculum documents *)

Objectives == JArr(<<JStr("identify fractions"), JStr("add decimals")>>)

TopicFractions ==
    JObj(<<"TOPIC NAME", "PERFORMANCE OBJECTIVES", "CONTENT", "TEACHER ACTIVITIES",
           "STUDENTS ACTIVITIES", "TEACHING AND LEARNING RESOURCES">>,
         <<JStr("Fractions and Decimals"), Objectives,
           JArr(<<JStr("halves"), JStr("quarters")>>),
           JArr(<<JStr("guides pupils")>>),
           JArr(<<JStr("share oranges")>>),
           JArr(<<JStr("oranges")>>)>>)

\* a record of the older sources: pupils' activities, no content, padded name
TopicAlgebra ==
    JObj(<<"TOPIC NAME", "PERFORMANCE OBJECTIVES", "PUPILS ACTIVITIES">>,
         <<JStr(" Algebra "), JArr(<<JStr("solve for x")>>),
           JArr(<<JStr("copy notes")>>)>>)

\* a malformed record: the topic name is a number
TopicBadName == JObj(<<"TOPIC NAME">>, <<JNum("5")>>)

\* a level dictionary: THEMES -> SUB THEMES -> TOPICS
Level(topics) ==
    JObj(<<"THEMES">>,
         <<JArr(<<JObj(<<"THEME NAME", "SUB THEMES">>,
                       <<JStr("Number"),
                         JArr(<<JObj(<<"SUB THEME NAME", "TOPICS">>,
                                     <<JStr("Whole numbers"), JArr(topics)>>)>>)>>)>>)>>)

\* a level whose first theme and first sub-theme hold no topic
LevelSecond(topics) ==
    JObj(<<"THEMES">>,
         <<JArr(<<JStr("note"),
                  JObj(<<"THEME NAME", "SUB THEMES">>,
                       <<JStr("Measurement"), JArr(<<JObj(<<"TOPICS">>, <<JNull>>)>>)>>),
                  JObj(<<"THEME NAME", "SUB THEMES">>,
                       <<JStr("Number"),
                         JArr(<<JObj(<<"SUB THEME NAME">>, <<JStr("empty")>>),
                                JObj(<<"SUB THEME NAME", "TOPICS">>,
                                     <<JStr("Whole numbers"), JArr(topics)>>)>>)>>)>>)>>)

\* topic records outside the THEMES -> SUB THEMES -> TOPICS chain
BareTopics(topics) == JObj(<<"TOPICS">>, <<JArr(topics)>>)

BareSubThemes(topics) ==
    JObj(<<"SUB THEMES">>, <<JArr(<<JObj(<<"TOPICS">>, <<JArr(topics)>>)>>)>>)

RECURSIVE Wrap(_, _)
\* n container layers around a tree: a dictionary, then a list, ...
Wrap(tree, n) ==
    IF n = 0 THEN tree
    ELSE IF n % 2 = 1
    THEN JObj(<<"title", "PRIMARY 4">>, <<JStr("Mathematics"), Wrap(tree, n - 1)>>)
    ELSE JArr(<<JNum("1"), Wrap(tree, n - 1)>>)

TopicLists ==
    { <<TopicFractions>>, <<TopicAlgebra, TopicFractions>>,
      <<TopicBadName, TopicFractions>>, <<TopicFractions, TopicBadName>>, <<>> }

Shapes ==
    UNION { { Level(ts), LevelSecond(ts), BareTopics(ts), BareSubThemes(ts) } :
            ts \in TopicLists }
    \cup { TopicFractions, JStr("Fractions"), JObj(<<"THEMES">>, <<TopicFractions>>) }

SubjectTrees == { Wrap(shape, n) : shape \in Shapes, n \in 0..MaxNest }

\* the merged curriculum map: grade -> subject -> tree
Document(tree) ==
    JObj(<<UpperPrimary, JuniorSecondary>>,
         <<JObj(<<"maths", "english_studies">>, <<tree, JObj(<<>>, <<>>)>>),
           JObj(<<"maths">>, <<tree>>)>>)

FileOf(data) == [exists |-> TRUE, loads |-> TRUE, data |-> data]

MissingFile == [exists |-> FALSE, loads |-> FALSE, data |-> JNull]

\* a file that is not JSON
BrokenFile == [exists |-> TRUE, loads |-> FALSE, data |-> JNull]

\* documents whose root or grade entry is not a mapping
MalformedDocuments ==
    { JArr(<<JStr(UpperPrimary)>>), JArr(<<>>), JStr("Primary 4-6 maths"), JNull,
      JNum("7"),
      JObj(<<UpperPrimary>>, <<JArr(<<JStr("maths")>>)>>),
      JObj(<<UpperPrimary>>, <<JStr("maths")>>),
      JObj(<<UpperPrimary>>, <<JNull>>) }

LookupFiles ==
    { FileOf(Document(tree)) : tree \in SubjectTrees }
    \cup { FileOf(d) : d \in MalformedDocuments }
    \cup { MissingFile, BrokenFile }

LookupGrades == {"Primary 4", "JSS 1", "Grade 9", " primary 4-6 ", "Primary ^"}

LookupSubjects == {"Math", "Unknown Subject", "maths"}

LookupTopics == {"fractions", " FRACTIONS AND DECIMALS, halves ", "Algebra", "zzz", ""}

----------------------------------------------------------------------------
(* json.loads and json.dumps, for text without fractions or exponents and   *)
(* with the escapes of the quote, the backslash, the newline, the tab and    *)
(* the carriage return (no text of the model holds another control           *)
(* character, a \u escape or a decimal point)                                *)

PFail == [ok |-> FALSE, v |-> JNull, i |-> 0]

POk(v, i) == [ok |-> TRUE, v |-> v, i |-> i]

\* the characters that end the scan of a run of plain characters
StringStops == {"\"", "\n", "\t", "\r", "\\"}

\* the character an escape letter stands for
Unescaped(c) ==
    CASE c = "n" -> "\n"
      [] c = "t" -> "\t"
      [] c = "r" -> "\r"
      [] OTHER -> c

\* the escape of a character of StringStops
EscapeOf(c) ==
    CASE c = "\n" -> "\\n"
      [] c = "\t" -> "\\t"
      [] c = "\r" -> "\\r"
      [] OTHER -> "\\" \o c

RECURSIVE FindQuote(_, _)
\* the index of the first character of StringStops at or after j, 0 when
\* there is none (the text is scanned a window of 32 characters at a time)
FindQuote(s, j) ==
    IF j > Len(s) THEN 0
    ELSE LET hi == IF j + 31 < Len(s) THEN j + 31 ELSE Len(s)
             stops == {k \in j..hi : Ch(s, k) \in StringStops}
         IN  IF stops = {} THEN FindQuote(s, hi + 1)
             ELSE CHOOSE k \in stops : \A l \in stops : k <= l

RECURSIVE ScanChars(_, _, _)
\* the rest of a string literal from j, acc holds the characters so far: the
\* closing quote ends it, a backslash escapes the character after it, a
\* control character or the end of the text is an error
ScanChars(s, j, acc) ==
    LET k == FindQuote(s, j)
    IN  IF k = 0 THEN PFail
        ELSE IF Ch(s, k) = "\""
        THEN POk(JStr(acc \o SubSeq(s, j, k - 1)), k + 1)
        ELSE IF Ch(s, k) = "\\" /\ k < Len(s)
                /\ Ch(s, k + 1) \in {"\"", "\\", "/", "n", "t", "r"}
        THEN ScanChars(s, k + 2, acc \o SubSeq(s, j, k - 1) \o Unescaped(Ch(s, k + 1)))
        ELSE PFail

\* a string literal that opens at i
ScanString(s, i) == ScanChars(s, i + 1, "")

RECURSIVE JsonEscape(_)
\* the characters of a string between the quotes of its literal
JsonEscape(s) ==
    LET k == FindQuote(s, 1)
    IN  IF k = 0 THEN s
        ELSE SubSeq(s, 1, k - 1) \o EscapeOf(Ch(s, k))
             \o JsonEscape(SubSeq(s, k + 1, Len(s)))

RECURSIVE DigitsEnd(_, _)
DigitsEnd(s, j) ==
    IF j <= Len(s) /\ Ch(s, j) \in Digits THEN DigitsEnd(s, j + 1) ELSE j

\* an integer at i: -?(0|[1-9][0-9]*)
ScanNumber(s, i) ==
    LET d == IF Ch(s, i) = "-" THEN i + 1 ELSE i
        e == IF d <= Len(s) /\ Ch(s, d) = "0" THEN d + 1 ELSE DigitsEnd(s, d)
    IN  IF e = d THEN PFail ELSE POk(JNum(SubSeq(s, i, e - 1)), e)

RECURSIVE ParseValue(_, _)
RECURSIVE ParseMembers(_, _, _)
RECURSIVE ParseElements(_, _, _)

\* the members of an object from the key at j; acc holds the pairs so far
ParseMembers(s, j, acc) ==
    IF j > Len(s) \/ Ch(s, j) # "\"" THEN PFail
    ELSE LET key == ScanString(s, j)
         IN  IF ~key.ok THEN PFail
             ELSE LET c == FirstNonWs(s, key.i)
                  IN  IF c > Len(s) \/ Ch(s, c) # ":" THEN PFail
                      ELSE LET val == ParseValue(s, FirstNonWs(s, c + 1))
                           IN  IF ~val.ok THEN PFail
                               ELSE LET m == FirstNonWs(s, val.i)
                                        acc2 == SetKey(acc, key.v.s, val.v)
                                    IN  IF m > Len(s) THEN PFail
                                        ELSE IF Ch(s, m) = "}" THEN POk(acc2, m + 1)
                                        ELSE IF Ch(s, m) = ","
                                        THEN ParseMembers(s, FirstNonWs(s, m + 1), acc2)
                                        ELSE PFail

\* the elements of an array from the value at j; acc holds the items so far
ParseElements(s, j, acc) ==
    LET val == ParseValue(s, j)
    IN  IF ~val.ok THEN PFail
        ELSE LET m == FirstNonWs(s, val.i)
                 acc2 == Append(acc, val.v)
             IN  IF m > Len(s) THEN PFail
                 ELSE IF Ch(s, m) = "]" THEN POk(JArr(acc2), m + 1)
                 ELSE IF Ch(s, m) = ","
                 THEN ParseElements(s, FirstNonWs(s, m + 1), acc2)
                 ELSE PFail

ParseValue(s, i) ==
    IF i > Len(s) THEN PFail
    ELSE LET c == Ch(s, i)
         IN  CASE c = "\"" -> ScanString(s, i)
               [] c = "{" ->
                     LET j == FirstNonWs(s, i + 1)
                     IN  IF j <= Len(s) /\ Ch(s, j) = "}"
                         THEN POk(JObj(<<>>, <<>>), j + 1)
                         ELSE ParseMembers(s, j, JObj(<<>>, <<>>))
               [] c = "[" ->
                     LET j == FirstNonWs(s, i + 1)
                     IN  IF j <= Len(s) /\ Ch(s, j) = "]"
                         THEN POk(JArr(<<>>), j + 1)
                         ELSE ParseElements(s, j, <<>>)
               [] c = "n" /\ i + 3 <= Len(s) /\ SubSeq(s, i, i + 3) = "null" ->
                     POk(JLit("null"), i + 4)
               [] c = "t" /\ i + 3 <= Len(s) /\ SubSeq(s, i, i + 3) = "true" ->
                     POk(JLit("true"), i + 4)
               [] c = "f" /\ i + 4 <= Len(s) /\ SubSeq(s, i, i + 4) = "false" ->
                     POk(JLit("false"), i + 5)
               [] c \in Digits \cup {"-"} -> ScanNumber(s, i)
               [] OTHER -> PFail

\* json.loads(s): [ok, v]; ok is FALSE where json.loads raises
JsonLoads(s) ==
    LET val == ParseValue(s, FirstNonWs(s, 1))
    IN  IF val.ok /\ FirstNonWs(s, val.i) = Len(s) + 1
        THEN [ok |-> TRUE, v |-> val.v]
        ELSE [ok |-> FALSE, v |-> JNull]

RECURSIVE JsonDumps(_)
\* json.dumps(v), with its default separators
JsonDumps(v) ==
    CASE v.t = "str" -> "\"" \o JsonEscape(v.s) \o "\""
      [] v.t = "num" -> v.s
      [] v.t = "lit" -> v.s
      [] v.t = "arr" ->
            "[" \o JoinStr(", ", [i \in 1..Len(v.kids) |-> JsonDumps(v.kids[i])]) \o "]"
      [] OTHER ->
            "{" \o JoinStr(", ", [i \in 1..Len(v.kids) |->
                                    "\"" \o JsonEscape(v.keys[i]) \o "\": "
                                    \o JsonDumps(v.kids[i])])
                \o "}"

----------------------------------------------------------------------------
(* Interpretation of the model reply: generate_lesson_plan, step 5 *)

\* a reply of the model call: a text, or a value that is not a string
TextReply(text) == [isStr |-> TRUE, text |-> text, v |-> JNull]

ValueReply(v) == [isStr |-> FALSE, text |-> "", v |-> v]

\* a search that stops at the first "}" after the first "{"
BraceMatchFirstClose(text) ==
    LET opens == {i \in 1..Len(text) : Ch(text, i) = "{"}
        p == CHOOSE i \in opens : \A j \in opens : i <= j
        closes == {i \in 1..Len(text) : Ch(text, i) = "}" /\ i > p}
        q == CHOOSE i \in closes : \A j \in closes : i <= j
    IN  IF opens # {} /\ closes # {}
        THEN [found |-> TRUE, group |-> SubSeq(text, p, q)]
        ELSE [found |-> FALSE, group |-> ""]

\* re.search(r"(\{[\s\S]*\})", text): the first "{" through the last "}"
BraceMatch(text) ==
    LET opens == {i \in 1..Len(text) : Ch(text, i) = "{"}
        closes == {i \in 1..Len(text) : Ch(text, i) = "}"}
        p == CHOOSE i \in opens : \A j \in opens : i <= j
        q == CHOOSE i \in closes : \A j \in closes : j <= i
    IN  IF opens # {} /\ closes # {} /\ p < q
        THEN [found |-> TRUE, group |-> SubSeq(text, p, q)]
        ELSE [found |-> FALSE, group |-> ""]

\* a record that keeps the trimmed reply as raw
ParseErrorRecordTrimmed(message, raw) ==
    JObj(<<"error", "raw">>, <<JStr(message), JStr(Strip(raw))>>)

\* lines 548, 550
ParseErrorRecord(message, raw) == JObj(<<"error", "raw">>, <<JStr(message), JStr(raw)>>)

\* what the interpretation did: whether it raised, whether the strict parse
\* succeeded, whether the search matched and its parse succeeded, and parsed
Interpreted(strict_ok, matched, extract_ok, parsed) ==
    [raised |-> FALSE, exc |-> "", strict_ok |-> strict_ok, matched |-> matched,
     extract_ok |-> extract_ok, parsed |-> parsed]

\* lines 545-548: the parse of the text the search matched
InterpretGroup(text, inner) ==
    IF inner.ok THEN Interpreted(FALSE, TRUE, TRUE, inner.v)
    ELSE Interpreted(FALSE, TRUE, FALSE,
                     ParseErrorRecord("Failed to parse JSON from LLM output", text))

\* lines 543-550: the handler of the failed strict parse
InterpretMatch(text, match) ==
    IF match.found THEN InterpretGroup(text, JsonLoads(match.group))
    ELSE Interpreted(FALSE, FALSE, FALSE,
                     ParseErrorRecord("LLM did not return JSON", text))

\* an interpretation that extracts up to the first "}" without a strict parse
InterpretTextExtractsFirst(text, strict) ==
    InterpretMatch(text, BraceMatchFirstClose(text))

\* lines 538-550, for a reply that is a string
InterpretText(text, strict) ==
    IF strict.ok THEN Interpreted(TRUE, FALSE, FALSE, strict.v)
    ELSE InterpretMatch(text, BraceMatch(text))

\* lines 536-550.  A reply that is not a string makes json.loads raise a
\* TypeError, which is caught, and then re.search raise one, which is not.
Interpret(reply) ==
    IF ~reply.isStr
    THEN [raised |-> TRUE, exc |-> "expected string or bytes-like object",
          strict_ok |-> FALSE, matched |-> FALSE, extract_ok |-> FALSE,
          parsed |-> JNull]
    ELSE InterpretText(reply.text, JsonLoads(reply.text))

----------------------------------------------------------------------------
(* _call_llm *)

\* the offline template of lines 357-376
FallbackPlan ==
    JObj(<<"title", "objectives", "learning_outcomes", "introduction", "activities",
           "differentiation", "materials", "assessment", "classroom_management",
           "extension", "low_data_version", "notes">>,
         <<JStr("Sample Lesson Plan"),
           JArr(<<JStr("Students will understand the topic"),
                  JStr("Students will apply key concepts")>>),
           JArr(<<JStr("Demonstrate understanding"),
                  JStr("Complete exercises correctly")>>),
           JStr("Begin with a brief introduction to engage students and activate prior knowledge."),
           JArr(<<JStr("Warm-up activity (5 minutes)"),
                  JStr("Main lesson presentation (15 minutes)"),
                  JStr("Guided practice (10 minutes)"),
                  JStr("Independent work (10 minutes)"),
                  JStr("Wrap-up and review (5 minutes)")>>),
           JArr(<<JStr("Provide extra support for struggling learners"),
                  JStr("Offer extension activities for advanced students")>>),
           JArr(<<JStr("Chalkboard"), JStr("Textbooks"), JStr("Writing materials")>>),
           JArr(<<JStr("Observe student participation"),
                  JStr("Check completed exercises"),
                  JStr("Ask comprehension questions")>>),
           JArr(<<JStr("Ensure all students can see and hear"),
                  JStr("Move around the classroom"),
                  JStr("Use positive reinforcement")>>),
           JStr("Assign related homework or encourage students to explore the topic further"),
           JStr("Present key concepts clearly, have students practice with available materials, assess understanding through simple questions."),
           JStr("This is a fallback lesson plan template. Configure Gemini API for AI-generated content.")>>)

\* a value as _call_llm returns it: a str is a text, anything else is not
ReplyOf(v) == IF IsStr(v) THEN TextReply(v.s) ELSE ValueReply(v)

\* len(v)
PyLen(v) ==
    CASE v.t = "str" -> Ok(JNum(ToString(Len(v.s))))
      [] v.t \in {"arr", "obj"} -> Ok(JNum(ToString(Len(v.kids))))
      [] OTHER -> Raise("object of type '" \o PyTypeName(v) \o "' has no len()")

\* c[0]
FirstItem(c) ==
    CASE c.t = "arr" ->
            IF Len(c.kids) > 0 THEN Ok(c.kids[1]) ELSE Raise("list index out of range")
      [] c.t = "str" ->
            IF Len(c.s) > 0 THEN Ok(JStr(Ch(c.s, 1))) ELSE Raise("string index out of range")
      [] c.t = "obj" -> Raise("0")
      [] OTHER -> Raise("'" \o PyTypeName(c) \o "' object is not subscriptable")

\* lines 344-351: the reply taken from the body of the HTTP response
HttpReply(data) ==
    LET choices == Get(data, "choices")
        n == PyLen(choices)
        first == FirstItem(choices)
        message == Subscript(first.ret, "message")
        content == Subscript(message.ret, "content")
    IN  IF IsDict(data) /\ HasKey(data, "choices")
        THEN IF n.raised THEN Raise(n.exc)
             ELSE IF n.ret # JNum("0")
             THEN IF first.raised THEN Raise(first.exc)
                  ELSE IF message.raised THEN Raise(message.exc)
                  ELSE content
             ELSE IF HasKey(data, "text") THEN Ok(Get(data, "text"))
             ELSE Ok(JStr(JsonDumps(data)))
        ELSE IF IsDict(data) /\ HasKey(data, "text") THEN Ok(Get(data, "text"))
        ELSE Ok(JStr(JsonDumps(data)))

\* lines 299, 322: which providers the configuration lets the call try
GeminiConfigured(config) ==
    config.gemini_available /\ (config.gemini_key \/ config.llm_key)

HttpConfigured(config) ==
    config.requests_available /\ config.llm_url /\ (config.llm_key \/ config.gemini_key)

\* lines 39, 331: "model": LLM_MODEL or "default", LLM_MODEL being the
\* variable of the environment, trimmed
HttpModel(config) ==
    IF config.llm_model.none \/ Strip(config.llm_model.s) = "" THEN "default"
    ELSE Strip(config.llm_model.s)

\* a _call_llm that reports the failure of the providers
call_llm_reports_failure(config, gemini, http) ==
    LET gemini_tried == GeminiConfigured(config)
        gemini_ok == gemini_tried /\ gemini.kind = "text" /\ gemini.text # ""
        http_tried == ~gemini_ok /\ HttpConfigured(config)
        http_reply == HttpReply(http.data)
        http_ok == http_tried /\ http.kind = "data" /\ ~http_reply.raised
    IN  [reply |-> IF gemini_ok THEN TextReply(Strip(gemini.text))
                   ELSE IF http_ok THEN ReplyOf(http_reply.ret)
                   ELSE TextReply(JsonDumps(JObj(<<"error">>,
                                                 <<JStr("model call failed")>>))),
         gemini_tried |-> gemini_tried, gemini_ok |-> gemini_ok,
         http_tried |-> http_tried, http_ok |-> http_ok,
         http_model |-> IF http_tried THEN HttpModel(config) ELSE "",
         fallback |-> ~gemini_ok /\ ~http_ok]

\* _call_llm.  gemini is what generate_content does: [kind |-> "text", text]
\* (response.text), "empty" (no response, or no text) or "raise"; http is what
\* requests.post (of a payload with the model name http_model),
\* raise_for_status and resp.json() do: [kind |-> "data", data]
\* or "raise" (a timeout after 30 s, a network error, an HTTP error status, a
\* body that is not JSON).
call_llm(config, gemini, http) ==
    LET gemini_tried == GeminiConfigured(config)
        gemini_ok == gemini_tried /\ gemini.kind = "text" /\ gemini.text # ""
        http_tried == ~gemini_ok /\ HttpConfigured(config)
        http_reply == HttpReply(http.data)
        http_ok == http_tried /\ http.kind = "data" /\ ~http_reply.raised
    IN  [reply |-> IF gemini_ok THEN TextReply(Strip(gemini.text))
                   ELSE IF http_ok THEN ReplyOf(http_reply.ret)
                   ELSE TextReply(JsonDumps(FallbackPlan)),
         gemini_tried |-> gemini_tried, gemini_ok |-> gemini_ok,
         http_tried |-> http_tried, http_ok |-> http_ok,
         http_model |-> IF http_tried THEN HttpModel(config) ELSE "",
         fallback |-> ~gemini_ok /\ ~http_ok]

----------------------------------------------------------------------------
(* The file cache *)

\* an optional argument: None, or a string
None == [none |-> TRUE, s |-> ""]

Some(s) == [none |-> FALSE, s |-> s]

\* x or dflt
OrElse(x, dflt) == IF x.none \/ x.s = "" THEN dflt ELSE x.s

\* _cache_key: the SHA-256 of the JSON list, taken as the list itself
cache_key(subject, grade, topic, teacher_input, language, summary_mode) ==
    <<subject, grade, topic, OrElse(teacher_input, ""), language, summary_mode>>

Indent(level) == Rep("  ", level)

RECURSIVE JsonDumpIndent(_, _)
\* json.dump(v, f, ensure_ascii=False, indent=2): the text of the file
JsonDumpIndent(v, level) ==
    CASE v.t = "str" -> "\"" \o JsonEscape(v.s) \o "\""
      [] v.t = "num" -> v.s
      [] v.t = "lit" -> v.s
      [] v.t = "arr" ->
            IF Len(v.kids) = 0 THEN "[]"
            ELSE "[\n" \o Indent(level + 1)
                 \o JoinStr(",\n" \o Indent(level + 1),
                            [i \in 1..Len(v.kids) |->
                                JsonDumpIndent(v.kids[i], level + 1)])
                 \o "\n" \o Indent(level) \o "]"
      [] OTHER ->
            IF Len(v.kids) = 0 THEN "{}"
            ELSE "{\n" \o Indent(level + 1)
                 \o JoinStr(",\n" \o Indent(level + 1),
                            [i \in 1..Len(v.kids) |->
                                "\"" \o JsonEscape(v.keys[i]) \o "\": "
                                \o JsonDumpIndent(v.kids[i], level + 1)])
                 \o "\n" \o Indent(level) \o "}"

\* the cache directory: the text of the file of each key that has one
EmptyCache == [k \in {} |-> ""]

\* _read_cache: None when the file is missing or does not load
read_cache(files, key) ==
    IF key \notin DOMAIN files THEN [none |-> TRUE, v |-> JNull]
    ELSE LET loaded == JsonLoads(files[key])
         IN  IF loaded.ok THEN [none |-> FALSE, v |-> loaded.v]
             ELSE [none |-> TRUE, v |-> JNull]

\* _write_cache.  disk is what the file system does: "ok"; "denied" (open
\* raises, the file is as it was); "full" (the write raises after open has
\* truncated the file).
write_cache(files, key, value, disk) ==
    LET put(text) == [k \in DOMAIN files \cup {key} |->
                         IF k = key THEN text ELSE files[k]]
    IN  CASE disk = "ok" -> [raised |-> FALSE, files |-> put(JsonDumpIndent(value, 0))]
          [] disk = "full" -> [raised |-> TRUE, files |-> put("")]
          [] OTHER -> [raised |-> TRUE, files |-> files]

----------------------------------------------------------------------------
(* generate_lesson_plan *)

\* sep.join(v): a list of str, the characters of a str, the keys of a dict;
\* a TypeError for a list with another item and for a value not iterable
PyJoin(sep, v) ==
    CASE v.t = "arr" ->
            IF \A i \in 1..Len(v.kids) : IsStr(v.kids[i])
            THEN Ok(JStr(JoinStr(sep, [i \in 1..Len(v.kids) |-> v.kids[i].s])))
            ELSE Raise("sequence item: expected str instance")
      [] v.t = "str" -> Ok(JStr(JoinStr(sep, [i \in 1..Len(v.s) |-> Ch(v.s, i)])))
      [] v.t = "obj" -> Ok(JStr(JoinStr(sep, v.keys)))
      [] OTHER -> Raise("can only join an iterable")

ContentLimit == 500

ContentKeep == 497

ActivitiesLimit == 300

ActivitiesKeep == 297

ContextLimit == 4000

ContextKeep == 3900

\* a cut that keeps limit characters before the marker
ShortenOverLimit(text, limit, keep) ==
    IF Len(text) > limit THEN SubSeq(text, 1, limit) \o "..." ELSE text

\* lines 498-499 and 504-505
Shorten(text, limit, keep) ==
    IF Len(text) > limit THEN SubSeq(text, 1, keep) \o "..." ELSE text

\* lines 486-510: the context derived from the lookup result (its topic_name
\* and its error, when present, are strings)
FormatContext(curriculum_objectives) ==
    LET topic_name == GetOr(curriculum_objectives, "topic_name", JNull)
        objectives == GetOr(curriculum_objectives, "objectives", JNull)
        content == GetOr(curriculum_objectives, "content", JNull)
        teacher_activities == GetOr(curriculum_objectives, "teacher_activities", JNull)
        objectives_str == PyJoin("; ", objectives)
        content_str == PyJoin("; ", content)
        activities_str == PyJoin("; ", teacher_activities)
        context_parts ==
            (IF Truthy(topic_name) THEN <<"Topic: " \o topic_name.s>> ELSE <<>>)
            \o (IF Truthy(objectives)
                THEN <<"Performance Objectives: " \o objectives_str.ret.s>> ELSE <<>>)
            \o (IF Truthy(content)
                THEN <<"Content: " \o Shorten(content_str.ret.s, ContentLimit, ContentKeep)>>
                ELSE <<>>)
            \o (IF Truthy(teacher_activities)
                THEN <<"Teacher Activities: "
                       \o Shorten(activities_str.ret.s, ActivitiesLimit, ActivitiesKeep)>>
                ELSE <<>>)
    IN  IF HasKey(curriculum_objectives, "error")
        THEN Ok(JStr("(auto-retrieval failed: "
                     \o Get(curriculum_objectives, "error").s \o ")"))
        ELSE IF Truthy(objectives) /\ objectives_str.raised THEN Raise(objectives_str.exc)
        ELSE IF Truthy(content) /\ content_str.raised THEN Raise(content_str.exc)
        ELSE IF Truthy(teacher_activities) /\ activities_str.raised
        THEN Raise(activities_str.exc)
        ELSE Ok(JStr(JoinStr(" | ", context_parts)))

\* a sanitizer that measures and cuts the text as given
SanitizeContextUntrimmed(curriculum_context) ==
    IF curriculum_context # ""
    THEN IF Len(curriculum_context) > ContextLimit
         THEN SubSeq(curriculum_context, 1, ContextKeep) \o " ... [truncated]"
         ELSE Strip(curriculum_context)
    ELSE "(no curriculum context provided)"

\* lines 513-519
SanitizeContext(curriculum_context) ==
    IF curriculum_context # ""
    THEN LET trimmed == Strip(curriculum_context)
         IN  IF Len(trimmed) > ContextLimit
             THEN SubSeq(trimmed, 1, ContextKeep) \o " ... [truncated]"
             ELSE trimmed
    ELSE "(no curriculum context provided)"

\* a prompt that takes the output mode and the teacher input as given
BuildPromptVerbatim(a, curriculum_context) ==
    [curriculum_context |-> curriculum_context,
     grade |-> a.grade, subject |-> a.subject, topic |-> a.topic,
     language |-> a.language, classroom_context |-> a.classroom_context,
     teacher_input |-> IF a.teacher_input.none THEN "None provided"
                       ELSE a.teacher_input.s,
     output_mode |-> a.output_mode]

\* lines 522-531: the values substituted into the template
BuildPrompt(a, curriculum_context) ==
    [curriculum_context |-> curriculum_context,
     grade |-> a.grade, subject |-> a.subject, topic |-> a.topic,
     language |-> a.language, classroom_context |-> a.classroom_context,
     teacher_input |-> OrElse(a.teacher_input, "None provided"),
     output_mode |-> IF a.output_mode = "short" THEN "short" ELSE "full"]

NoPrompt ==
    [curriculum_context |-> "", grade |-> "", subject |-> "", topic |-> "",
     language |-> "", classroom_context |-> "", teacher_input |-> "",
     output_mode |-> ""]

NoLlm ==
    [reply |-> TextReply(""), gemini_tried |-> FALSE, gemini_ok |-> FALSE,
     http_tried |-> FALSE, http_ok |-> FALSE, http_model |-> "",
     fallback |-> FALSE]

\* what a call that has not gone past the cache has done
NotStarted(files) ==
    [raised |-> FALSE, exc |-> "", returned |-> FALSE, from_cache |-> FALSE,
     result |-> JNull, files |-> files, lookup_called |-> FALSE,
     lookup |-> JNull, raw_context |-> "", context |-> "", prompt_built |-> FALSE,
     prompt |-> NoPrompt, llm_called |-> FALSE, llm |-> NoLlm,
     interpreted |-> FALSE, strict_ok |-> FALSE, extract_ok |-> FALSE,
     cache_written |-> FALSE]

\* the call raises exc
Raised(done, exc) == [done EXCEPT !.raised = TRUE, !.exc = exc]

\* line 554: the outcome of the cache write, then line 556
ReturnStored(done, written) ==
    IF written.raised
    THEN [Raised(done, "OSError") EXCEPT !.files = written.files, !.result = JNull]
    ELSE [done EXCEPT !.returned = TRUE, !.files = written.files,
                      !.cache_written = TRUE]

\* lines 552-556: store a dict in the cache, return what was parsed
StoreAndReturn(c, done, parsed) ==
    IF IsDict(parsed)
    THEN ReturnStored(done, write_cache(c.files, c.key, parsed, c.disk))
    ELSE [done EXCEPT !.returned = TRUE]

\* lines 536-556
ParseAndStore(c, prompted, parsed) ==
    IF parsed.raised THEN Raised(prompted, parsed.exc)
    ELSE StoreAndReturn(c, [prompted EXCEPT !.interpreted = TRUE,
                                            !.strict_ok = parsed.strict_ok,
                                            !.extract_ok = parsed.extract_ok,
                                            !.result = parsed.parsed],
                        parsed.parsed)

\* lines 521-534: build the prompt, call the model
PromptAndCall(c, looked, raw_context, context, llm) ==
    ParseAndStore(c, [looked EXCEPT !.raw_context = raw_context, !.context = context,
                                    !.prompt_built = TRUE,
                                    !.prompt = BuildPrompt(c.a, context),
                                    !.llm_called = TRUE, !.llm = llm],
                  Interpret(llm.reply))

\* lines 512-534, for the context ctx = [st, raw] of lines 481-510
Sanitize(c, ctx) ==
    IF ctx.st.raised THEN ctx.st
    ELSE PromptAndCall(c, ctx.st, ctx.raw, SanitizeContext(ctx.raw),
                       call_llm(c.config, c.gemini, c.http))

\* lines 485-510
Derived(looked, derived) ==
    IF derived.raised THEN [st |-> Raised(looked, derived.exc), raw |-> ""]
    ELSE [st |-> looked, raw |-> derived.ret.s]

\* a lookup whose error result ends the call
LookedUpAborts(start, lookup) ==
    IF lookup.raised \/ HasKey(lookup.ret, "error")
    THEN [st |-> Raised([start EXCEPT !.lookup_called = TRUE, !.lookup = lookup.ret],
                        "lookup failed"),
          raw |-> ""]
    ELSE Derived([start EXCEPT !.lookup_called = TRUE, !.lookup = lookup.ret],
                 FormatContext(lookup.ret))

\* lines 483-510
LookedUp(start, lookup) ==
    IF lookup.raised
    THEN [st |-> Raised([start EXCEPT !.lookup_called = TRUE], lookup.exc), raw |-> ""]
    ELSE Derived([start EXCEPT !.lookup_called = TRUE, !.lookup = lookup.ret],
                 FormatContext(lookup.ret))

\* lines 481-510: the context of the caller, or the one the lookup gives
GetContext(c, start) ==
    IF c.a.curriculum_context.none
    THEN LookedUp(start, get_curriculum_objectives(c.file, c.a.grade, c.a.subject,
                                                   c.a.topic))
    ELSE [st |-> start, raw |-> c.a.curriculum_context.s]

\* a cache read that does not look at use_cache
TryCacheAlways(c, start, cached) ==
    IF ~cached.none /\ Truthy(cached.v)
    THEN [start EXCEPT !.returned = TRUE, !.from_cache = TRUE, !.result = cached.v]
    ELSE Sanitize(c, GetContext(c, start))

\* lines 476-479, then the rest
TryCache(c, start, cached) ==
    IF c.a.use_cache /\ ~cached.none /\ Truthy(cached.v)
    THEN [start EXCEPT !.returned = TRUE, !.from_cache = TRUE, !.result = cached.v]
    ELSE Sanitize(c, GetContext(c, start))

\* the call with its cache key (line 475)
Keyed(c) == TryCache(c, NotStarted(c.files), read_cache(c.files, c.key))

\* generate_lesson_plan(subject, grade, topic, ...) with the arguments a, in a
\* process with the configuration config, the curriculum map file and the
\* cache directory files, where the providers do gemini and http and the
\* disk does disk.  The result tells what the call did (the lookup, the
\* context, the prompt, the reply) and how it ended: raised, or returned
\* {"from_cache": from_cache, "result": result}, and the cache directory.
generate_lesson_plan(a, config, file, files, gemini, http, disk) ==
    Keyed([a |-> a, config |-> config, file |-> file, files |-> files,
           gemini |-> gemini, http |-> http, disk |-> disk,
           key |-> cache_key(a.subject, a.grade, a.topic, a.teacher_input,
                             a.language, a.output_mode = "short")])

----------------------------------------------------------------------------
(* State *)

\* the environment: the packages that import, the variables that are set,
\* and LLM_MODEL: None when it is not set
Env(gemini, key, url, model) ==
    [gemini_available |-> gemini, requests_available |-> TRUE,
     gemini_key |-> key, llm_key |-> key, llm_url |-> url, llm_model |-> model]

BothProviders == Env(TRUE, TRUE, TRUE, Some("llama3"))

GeminiOnly == Env(TRUE, TRUE, FALSE, Some("llama3"))

HttpOnly == Env(FALSE, TRUE, TRUE, Some(" llama3 "))

Offline == Env(FALSE, FALSE, FALSE, Some("llama3"))

NoModelName == Env(TRUE, TRUE, TRUE, None)

\* LLM_MODEL is set to the empty string
EmptyModelName == Env(FALSE, TRUE, TRUE, Some(""))

\* line 39: os.environ.get("LLM_MODEL").strip() raises when LLM_MODEL is unset,
\* and the module does not load
ModuleLoaded == ~environ.llm_model.none

NoReq == [op |-> "none"]

NoOut == [op |-> "none"]

\* a direct call of the lookup, as the /curriculum endpoint makes it
GetCurriculumObjectives ==
    /\ ModuleLoaded
    /\ out.op = "none"
    /\ \E grade \in LookupGrades, subject \in LookupSubjects, topic \in LookupTopics :
          \E r \in {get_curriculum_objectives(curriculum, grade, subject, topic)} :
              /\ req' = [op |-> "lookup", grade |-> grade, subject |-> subject,
                         topic |-> topic]
              /\ out' = [op |-> "lookup", raised |-> r.raised, exc |-> r.exc,
                         result |-> r.ret]
    /\ UNCHANGED <<environ, curriculum, cache, calls>>

InitLookup ==
    /\ environ = Offline
    /\ curriculum \in LookupFiles
    /\ cache = EmptyCache
    /\ calls = 0
    /\ req = NoReq
    /\ out = NoOut

NextLookup == GetCurriculumObjectives

SpecLookup == InitLookup /\ [][NextLookup]_vars

----------------------------------------------------------------------------
(* Claims about the lookup (under SpecLookup) *)

RECURSIVE Nodes(_)
\* every value of a tree: the tree, its children, their children, ...
Nodes(v) == {v} \cup UNION { Nodes(v.kids[i]) : i \in 1..Len(v.kids) }

Elems(list) == { list.kids[i] : i \in 1..Len(list.kids) }

FiveFields ==
    {"objectives", "content", "teacher_activities", "student_activities", "resources"}

\* the error shape: a non-empty reason and an empty list in every field
IsErrorResult(r) ==
    /\ IsDict(r)
    /\ HasKey(r, "error") /\ IsStr(Get(r, "error")) /\ Get(r, "error").s # ""
    /\ \A f \in FiveFields : HasKey(r, f) /\ Get(r, f) = EmptyList

IsSuccessResult(r) ==
    /\ IsDict(r)
    /\ ~HasKey(r, "error")
    /\ \A f \in FiveFields : HasKey(r, f)

DocumentLoaded == curriculum.exists /\ curriculum.loads /\ IsDict(curriculum.data)

\* the normalizer returned a grade key for the requested grade
GradeNormalized == ~normalize_grade(req.grade).raised

ReqGradeKey == normalize_grade(req.grade).ret

ReqSubjectKey == normalize_subject(req.subject)

GradeKnown == DocumentLoaded /\ GradeNormalized /\ HasKey(curriculum.data, ReqGradeKey)

ReqGradeData == Get(curriculum.data, ReqGradeKey)

SubjectKnown == GradeKnown /\ IsDict(ReqGradeData) /\ HasKey(ReqGradeData, ReqSubjectKey)

ReqSubjectData == Get(ReqGradeData, ReqSubjectKey)

\* q, lower-cased and trimmed, is contained in N, lower-cased and trimmed, or
\* contains it
MatchesQuery(q, N) ==
    LET a == Strip(Lower(q))
        b == Strip(Lower(N))
    IN  Contains(b, a) \/ Contains(a, b)

\* the topic records anywhere in a tree
TopicRecords(tree) == { n \in Nodes(tree) : IsTopicItem(n) }

\* the topic records in a TOPICS list of an entry of a SUB THEMES list of an
\* entry of a THEMES list of a dictionary of the tree
ChainTopics(tree) ==
    { n \in TopicRecords(tree) :
        \E d \in Nodes(tree) :
            /\ IsDict(d) /\ HasKey(d, "THEMES") /\ IsList(Get(d, "THEMES"))
            /\ \E th \in Elems(Get(d, "THEMES")) :
                 /\ IsDict(th) /\ HasKey(th, "SUB THEMES")
                 /\ IsList(Get(th, "SUB THEMES"))
                 /\ \E st \in Elems(Get(th, "SUB THEMES")) :
                      /\ IsDict(st) /\ HasKey(st, "TOPICS")
                      /\ IsList(Get(st, "TOPICS"))
                      /\ n \in Elems(Get(st, "TOPICS")) }

NamesAreStrings(tree) == \A n \in TopicRecords(tree) : IsStr(Get(n, "TOPIC NAME"))

\* no topic record of the requested subject matches the requested topic
NoTopicMatches ==
    /\ SubjectKnown
    /\ \A n \in TopicRecords(ReqSubjectData) :
          IsStr(Get(n, "TOPIC NAME")) => ~MatchesQuery(req.topic, Get(n, "TOPIC NAME").s)

\* C8: the lookup never raises, and a missing file, a file that does not load,
\* an unknown grade, an unknown subject, an unmatched topic and a document
\* whose search meets a topic name that is not a string each give an error
\* result: a non-empty reason and five empty lists.
LookupNeverRaises ==
    out.op = "lookup" =>
        /\ ~out.raised
        /\ IsErrorResult(out.result) \/ IsSuccessResult(out.result)
        /\ (~DocumentLoaded \/ ~GradeKnown \/ ~SubjectKnown \/ NoTopicMatches)
              => IsErrorResult(out.result)

LookupMalformedWitness ==
    /\ out.op = "lookup" /\ ~out.raised /\ SubjectKnown
    /\ IsErrorResult(out.result)
    /\ Get(out.result, "error").s
         = "Error retrieving curriculum objectives: 'int' object has no attribute 'lower'"

\* C9 as stated: a matching topic record anywhere in the subject subtree (all
\* topic names being strings) is found.
SubstringMatchAnywhere ==
    (/\ out.op = "lookup" /\ SubjectKnown
     /\ NamesAreStrings(ReqSubjectData)
     /\ \E n \in TopicRecords(ReqSubjectData) :
           MatchesQuery(req.topic, Get(n, "TOPIC NAME").s))
    => IsSuccessResult(out.result)

\* C9 amended: a matching topic record in a TOPICS list of a sub-theme of a
\* theme of a THEMES list, in a dictionary at any depth of the subject subtree
\* (all topic names being strings), is found.
SubstringMatchUnderThemes ==
    (/\ out.op = "lookup" /\ SubjectKnown
     /\ NamesAreStrings(ReqSubjectData)
     /\ \E n \in ChainTopics(ReqSubjectData) :
           MatchesQuery(req.topic, Get(n, "TOPIC NAME").s))
    => IsSuccessResult(out.result)

SubstringMatchWitness ==
    /\ out.op = "lookup" /\ SubjectKnown
    /\ req.topic = "fractions"
    /\ curriculum.data = Document(Wrap(LevelSecond(<<TopicAlgebra, TopicFractions>>), 2))
    /\ IsSuccessResult(out.result)
    /\ Get(out.result, "topic_name") = JStr("Fractions and Decimals")

QuotedKeys(d) ==
    "[" \o JoinStr(", ", [i \in 1..Len(d.keys) |-> "'" \o d.keys[i] \o "'"]) \o "]"

\* C10: an absent grade key gives the error that lists the grade keys of the
\* document, whatever the subject; a present grade with an absent subject key
\* gives the error that lists the subject keys of that grade.
NotFoundListsKeys ==
    (out.op = "lookup" /\ DocumentLoaded /\ GradeNormalized) =>
        /\ ~GradeKnown =>
              /\ IsErrorResult(out.result)
              /\ Get(out.result, "error").s
                   = "Grade '" \o ReqGradeKey \o "' not found. Available grades: "
                     \o QuotedKeys(curriculum.data)
        /\ (GradeKnown /\ IsDict(ReqGradeData) /\ ~SubjectKnown) =>
              /\ IsErrorResult(out.result)
              /\ Get(out.result, "error").s
                   = "Subject '" \o ReqSubjectKey \o "' not found in " \o ReqGradeKey
                     \o ". Available subjects: " \o QuotedKeys(ReqGradeData)

SubjectNotFoundWitness ==
    /\ out.op = "lookup"
    /\ req.grade = "JSS 1" /\ req.subject = "Unknown Subject"
    /\ Get(out.result, "error").s
         = "Subject 'Unknown Subject' not found in Junior Secondary 1-3. "
           \o "Available subjects: ['maths']"

----------------------------------------------------------------------------
(* Interpretation alone: the replies a model can give *)

Lexemes == {"{", "}", "[", "]", ":", ",", "\"a\"", "1", "x"}

RECURSIVE LexTexts(_)
\* the texts of at most n lexemes
LexTexts(n) ==
    IF n = 0 THEN {""}
    ELSE LET shorter == LexTexts(n - 1)
         IN  shorter \cup { t \o l : t \in shorter, l \in Lexemes }

PlanKeys ==
    <<"title", "objectives", "learning_outcomes", "introduction", "activities",
      "differentiation", "materials", "assessment", "classroom_management",
      "extension", "low_data_version", "notes">>

\* a reply with the whole key set of the prompt
FullPlan ==
    JObj(PlanKeys,
         <<JStr("Local Fractions (Primary 4)"),
           JArr(<<JStr("Understand halves and quarters")>>),
           JArr(<<JStr("Divide an object into 2 equal parts")>>),
           JStr("Ask pupils if they have shared food before."),
           JArr(<<JStr("Starter (5 min): Show a mango, cut into halves.")>>),
           JArr(<<JStr("Pair learners by ability")>>),
           JArr(<<JStr("mango or orange"), JStr("chalk")>>),
           JArr(<<JStr("Draw half of a shape")>>),
           JArr(<<JStr("Keep groups small")>>),
           JStr("Ask pupils to find examples of halves at home."),
           JStr("Show a fruit and ask pupils to divide a drawing into halves."),
           JStr("Be fair when using food examples.")>>)

\* a reply that lacks most of the keys
PartialPlan == JObj(<<"title">>, <<JStr("X")>>)

ReplyObjects ==
    { JObj(<<>>, <<>>), PartialPlan, FullPlan,
      JObj(<<"a", "c">>, <<JObj(<<"b">>, <<JArr(<<>>)>>), JNull>>),
      JObj(<<"error">>, <<JStr("quota exceeded")>>),
      JObj(<<"n", "ok", "list">>,
           <<JNum("-12"), JLit("true"), JArr(<<JNum("0"), JObj(<<"k">>, <<JStr("v {x}")>>)>>)>>) }

ReplyValues ==
    ReplyObjects
    \cup { JArr(<<>>), JArr(<<JNum("1"), PartialPlan>>), JNum("7"), JStr("plan"),
           JNull, JLit("true"), JLit("false") }

Padding == {"", " ", "\n"}

Prose == {"Here is your plan: ", " Thanks!", "{see} ", " ok}", "Plan [1]: "}

\* the replies of the interpretation runs, each with what it was made from
InterpretInputs ==
    { [op |-> "reply", origin |-> "text", reply |-> TextReply(t),
       value |-> JNull, pre |-> "", post |-> ""] : t \in LexTexts(MaxReplyLen) }
    \cup { [op |-> "reply", origin |-> "dumped",
            reply |-> TextReply(pre \o JsonDumps(v) \o post),
            value |-> v, pre |-> pre, post |-> post] :
           v \in ReplyValues, pre \in Padding \cup Prose, post \in Padding \cup Prose }
    \cup { [op |-> "reply", origin |-> "value", reply |-> ValueReply(v),
            value |-> v, pre |-> "", post |-> ""] : v \in {JNull, PartialPlan, JNum("7")} }

\* step 5 of generate_lesson_plan applied to one reply
InterpretReply ==
    /\ ModuleLoaded
    /\ req.op = "reply"
    /\ out.op = "none"
    /\ \E r \in {Interpret(req.reply)} :
          out' = [op |-> "interpret", raised |-> r.raised, exc |-> r.exc,
                  strict_ok |-> r.strict_ok, matched |-> r.matched,
                  extract_ok |-> r.extract_ok, parsed |-> r.parsed]
    /\ UNCHANGED <<environ, curriculum, cache, calls, req>>

InitInterpret ==
    /\ environ = Offline
    /\ curriculum = MissingFile
    /\ cache = EmptyCache
    /\ calls = 0
    /\ req \in InterpretInputs
    /\ out = NoOut

NextInterpret == InterpretReply

SpecInterpret == InitInterpret /\ [][NextInterpret]_vars

----------------------------------------------------------------------------
(* Claims about the interpretation (under SpecInterpret) *)

IsErrorRecord(r) == IsDict(r) /\ HasKey(r, "error")

HasBracePair(text) ==
    \E p, q \in 1..Len(text) : p < q /\ Ch(text, p) = "{" /\ Ch(text, q) = "}"

IsBlank(text) == \A i \in 1..Len(text) : Ch(text, i) \in Whitespace

\* both parses of a text reply failed
BothParsesFailed ==
    /\ out.op = "interpret" /\ req.reply.isStr
    /\ ~out.raised /\ ~out.strict_ok /\ ~out.extract_ok

\* C3 as stated: the interpretation of a reply text does not raise and yields
\* a mapping.
InterpretYieldsRecord ==
    (out.op = "interpret" /\ req.reply.isStr) => (~out.raised /\ IsDict(out.parsed))

\* C5 as stated: every failure of both parses carries the one message of the
\* no-JSON path and the reply as raw.
ParseFailureOneMessage ==
    BothParsesFailed =>
        out.parsed = ParseErrorRecord("LLM did not return JSON", req.reply.text)

\* C5 amended: when both parses fail the result is an error record with the
\* reply verbatim as raw and one of two fixed messages: "Failed to parse JSON
\* from LLM output" when the reply has a "{" before a "}", "LLM did not return
\* JSON" when it has not.
ParseFailureKeepsRaw ==
    BothParsesFailed =>
        /\ out.parsed.keys = <<"error", "raw">>
        /\ Get(out.parsed, "raw") = JStr(req.reply.text)
        /\ Get(out.parsed, "error")
             = JStr(IF HasBracePair(req.reply.text)
                    THEN "Failed to parse JSON from LLM output"
                    ELSE "LLM did not return JSON")

ParseFailureWitness ==
    /\ BothParsesFailed
    /\ req.reply.text = "Here is your plan: {\"title\": \"X\"} ok}"
    /\ Get(out.parsed, "raw").s = "Here is your plan: {\"title\": \"X\"} ok}"
    /\ Get(out.parsed, "error").s = "Failed to parse JSON from LLM output"

\* C6: a reply that is the JSON text of an object, alone or between blanks, is
\* interpreted as that object: the same keys in the same order with the same
\* values.
InterpretRoundTrips ==
    (/\ out.op = "interpret" /\ req.origin = "dumped"
     /\ IsDict(req.value) /\ IsBlank(req.pre) /\ IsBlank(req.post))
    => (~out.raised /\ out.parsed = req.value)

RoundTripWitness ==
    /\ out.op = "interpret" /\ req.origin = "dumped"
    /\ req.value = FullPlan /\ req.pre = "\n" /\ req.post = " "
    /\ out.strict_ok /\ out.parsed = FullPlan

----------------------------------------------------------------------------
(* Calls of generate_lesson_plan *)

LongText(c, n) == Rep(c, n)

\* content of 604 characters, teacher activities of 322
TopicMedium ==
    JObj(<<"TOPIC NAME", "PERFORMANCE OBJECTIVES", "CONTENT", "TEACHER ACTIVITIES">>,
         <<JStr("Fractions"), Objectives,
           JArr(<<JStr(LongText("c", 200)), JStr(LongText("d", 200)),
                  JStr(LongText("e", 200))>>),
           JArr(<<JStr(LongText("t", 160)), JStr(LongText("u", 160))>>)>>)

\* objectives of 4518 characters, ending in blanks
TopicLong ==
    JObj(<<"TOPIC NAME", "PERFORMANCE OBJECTIVES">>,
         <<JStr("Fractions"),
           JArr([i \in 1..10 |-> JStr(LongText("o", 440) \o Rep(" ", 10))])>>)

\* objectives with an item that is not a string
TopicBadItems ==
    JObj(<<"TOPIC NAME", "PERFORMANCE OBJECTIVES", "CONTENT">>,
         <<JStr("Fractions"), JArr(<<JStr("identify fractions"), JNum("2")>>),
           JArr(<<JStr("halves")>>)>>)

PlainFile == FileOf(Document(Level(<<TopicFractions>>)))

MediumFile == FileOf(Document(Level(<<TopicMedium>>)))

LongFile == FileOf(Document(Level(<<TopicLong>>)))

BadItemsFile == FileOf(Document(Level(<<TopicBadItems>>)))

\* the processes of the model: an environment and a curriculum map
Processes ==
    { <<c, PlainFile>> : c \in {BothProviders, GeminiOnly, HttpOnly, Offline, NoModelName,
                                 EmptyModelName} }
    \cup { <<BothProviders, f>> : f \in {MissingFile, MediumFile, LongFile, BadItemsFile} }

BaseArgs ==
    [subject |-> "Math", grade |-> "Primary 4", topic |-> "fractions",
     curriculum_context |-> None, teacher_input |-> None, language |-> "English",
     classroom_context |-> "rural", output_mode |-> "full", use_cache |-> TRUE]

CallerContexts ==
    { "", "   ", "Pupils know halves.",
      LongText("x", 4000), LongText("x", 4001),
      " " \o LongText("x", 4001),
      LongText("x", 3999) \o "     ",
      LongText("x", 3900) \o Rep(" ", 101) \o "y" }

\* the base call and the calls that differ from it in one argument
ArgVariants ==
    { BaseArgs,
      [BaseArgs EXCEPT !.subject = "Unknown Subject"],
      [BaseArgs EXCEPT !.grade = "JSS 1"],
      [BaseArgs EXCEPT !.grade = "Grade 9"],
      [BaseArgs EXCEPT !.topic = "zzz"],
      [BaseArgs EXCEPT !.teacher_input = Some("chalk and stones")],
      [BaseArgs EXCEPT !.teacher_input = Some("")],
      [BaseArgs EXCEPT !.language = "Hausa"],
      [BaseArgs EXCEPT !.classroom_context = "urban"],
      [BaseArgs EXCEPT !.output_mode = "short"],
      [BaseArgs EXCEPT !.output_mode = "brief"],
      [BaseArgs EXCEPT !.use_cache = FALSE] }
    \cup { [BaseArgs EXCEPT !.curriculum_context = Some(c)] : c \in CallerContexts }

GeminiText(text) == [kind |-> "text", text |-> text]

GeminiEmpty == [kind |-> "empty", text |-> ""]

GeminiRaises == [kind |-> "raise", text |-> ""]

GeminiGood == GeminiText(JsonDumps(FullPlan) \o "\n")

GeminiOutcomes ==
    { GeminiGood,
      GeminiText("Here is your plan: " \o JsonDumps(PartialPlan)),
      GeminiText("[1, 2]"),
      GeminiText("Sorry, I cannot help with that."),
      GeminiText("{\"title\": \"X\","),
      GeminiText("  "),
      GeminiEmpty, GeminiRaises }

HttpData(data) == [kind |-> "data", data |-> data]

HttpRaises == [kind |-> "raise", data |-> JNull]

ChatBody(content) ==
    JObj(<<"choices">>,
         <<JArr(<<JObj(<<"message">>, <<JObj(<<"content">>, <<content>>)>>)>>)>>)

HttpOutcomes ==
    { HttpRaises,
      HttpData(ChatBody(JStr(JsonDumps(FullPlan)))),
      HttpData(ChatBody(JNull)),
      HttpData(ChatBody(PartialPlan)),
      HttpData(JObj(<<"choices">>, <<JArr(<<JObj(<<"delta">>, <<JStr("x")>>)>>)>>)),
      HttpData(JObj(<<"choices", "text">>, <<JArr(<<>>), JStr("{\"title\": \"X\"}")>>)),
      HttpData(JObj(<<"error">>, <<JStr("quota exceeded")>>)),
      HttpData(JArr(<<JNum("1")>>)) }

\* the calls of the model: the arguments, what the providers do, what the disk does
Scenarios ==
    { <<a, GeminiGood, HttpRaises, "ok">> : a \in ArgVariants }
    \cup { <<BaseArgs, g, HttpRaises, "ok">> : g \in GeminiOutcomes }
    \cup { <<BaseArgs, g, h, "ok">> : g \in {GeminiEmpty, GeminiRaises}, h \in HttpOutcomes }
    \cup { <<a, GeminiGood, HttpRaises, d>> :
             a \in {BaseArgs, [BaseArgs EXCEPT !.use_cache = FALSE]},
             d \in {"denied", "full"} }
    \cup { <<[BaseArgs EXCEPT !.use_cache = FALSE], g, HttpRaises, "ok">> :
             g \in {GeminiText("{}"), GeminiText("[1, 2]"), GeminiText("{\"title\": \"X\"}")} }

\* the calls that follow the first one in a process: the base call again, or
\* one that differs from it in an argument, answered with a whole plan or with
\* a partial one
LaterCalls ==
    { <<a, g, HttpRaises, "ok">> :
        a \in { BaseArgs,
                [BaseArgs EXCEPT !.teacher_input = Some("chalk and stones")],
                [BaseArgs EXCEPT !.classroom_context = "urban"],
                [BaseArgs EXCEPT !.output_mode = "short"],
                [BaseArgs EXCEPT !.use_cache = FALSE],
                [BaseArgs EXCEPT !.curriculum_context = Some("Pupils know halves.")] },
        g \in { GeminiGood, GeminiText("Here is your plan: " \o JsonDumps(PartialPlan)) } }

GenerateLessonPlan ==
    /\ ModuleLoaded
    /\ calls < MaxCalls
    /\ \E sc \in IF calls = 0 THEN Scenarios ELSE LaterCalls :
          \E r \in {generate_lesson_plan(sc[1], environ, curriculum, cache,
                                        sc[2], sc[3], sc[4])} :
              /\ req' = [op |-> "generate", args |-> sc[1], gemini |-> sc[2],
                         http |-> sc[3], disk |-> sc[4]]
              /\ out' = [op |-> "generate", raised |-> r.raised, exc |-> r.exc,
                         returned |-> r.returned, from_cache |-> r.from_cache,
                         result |-> r.result, lookup_called |-> r.lookup_called,
                         lookup |-> r.lookup, raw_context |-> r.raw_context,
                         context |-> r.context, prompt_built |-> r.prompt_built,
                         prompt |-> r.prompt, llm_called |-> r.llm_called,
                         llm |-> r.llm, interpreted |-> r.interpreted,
                         strict_ok |-> r.strict_ok, extract_ok |-> r.extract_ok,
                         cache_written |-> r.cache_written]
              /\ cache' = r.files
    /\ calls' = calls + 1
    /\ UNCHANGED <<environ, curriculum>>

Init ==
    /\ \E p \in Processes : environ = p[1] /\ curriculum = p[2]
    /\ cache = EmptyCache
    /\ calls = 0
    /\ req = NoReq
    /\ out = NoOut

Next == GenerateLessonPlan

Spec == Init /\ [][Next]_vars


----------------------------------------------------------------------------
(* Claims about generate_lesson_plan (under Spec) *)

Generated == out.op = "generate"

HasPlanKeys(r) == IsDict(r) /\ \A i \in 1..Len(PlanKeys) : HasKey(r, PlanKeys[i])

\* the call reached the providers and every provider it tried failed
ModelCallFailed ==
    /\ Generated /\ out.llm_called
    /\ out.llm.gemini_tried \/ out.llm.http_tried
    /\ ~out.llm.gemini_ok /\ ~out.llm.http_ok

\* C1 as stated: generate_lesson_plan never raises; every call returns.
GenerateNeverRaises == Generated => (~out.raised /\ out.returned)

ReturnedPlanIsValidated ==
    (Generated /\ out.returned) =>
        (HasPlanKeys(out.result) \/ IsErrorRecord(out.result))

\* the length of the blank prefix of a text
LeadingBlanks(text) == FirstNonWs(text, 1) - 1

TrailingBlanks(text) == Len(text) - LastNonWs(text, Len(text))

TrimmedLen(text) ==
    IF LeadingBlanks(text) = Len(text) THEN 0
    ELSE Len(text) - LeadingBlanks(text) - TrailingBlanks(text)

TruncationMarker == " ... [truncated]"

\* C7 as stated: the context of the prompt is at most 4000 characters, and a
\* context longer than 4000 characters is its first 3900 characters and the
\* marker.
ContextCutAtLimit ==
    (Generated /\ out.prompt_built) =>
        /\ Len(out.prompt.curriculum_context) <= 4000
        /\ Len(out.raw_context) > 4000 =>
              out.prompt.curriculum_context
                  = SubSeq(out.raw_context, 1, 3900) \o TruncationMarker

\* C7 amended: the context of the prompt is at most 4000 characters; the
\* context is trimmed of surrounding blanks first, and it is the trimmed text
\* that is measured and cut: a trimmed text longer than 4000 characters
\* becomes its first 3900 characters and the marker, a shorter one is kept
\* whole.
ContextTrimmedThenCut ==
    (Generated /\ out.prompt_built) =>
        LET raw == out.raw_context
            lead == LeadingBlanks(raw)
            n == TrimmedLen(raw)
        IN  /\ Len(out.prompt.curriculum_context) <= 4000
            /\ n > 4000 =>
                  out.prompt.curriculum_context
                      = SubSeq(raw, lead + 1, lead + 3900) \o TruncationMarker
            /\ (raw # "" /\ n <= 4000) =>
                  out.prompt.curriculum_context = SubSeq(raw, lead + 1, lead + n)

ContextCutWitness ==
    /\ Generated /\ out.prompt_built /\ out.lookup_called
    /\ TrimmedLen(out.raw_context) > 4000
    /\ TrailingBlanks(out.raw_context) > 0
    /\ Len(out.prompt.curriculum_context) = 3916


----------------------------------------------------------------------------
(* The normalizers, called directly                                        *)

\* s in upper case
Upper(s) ==
    [i \in 1..Len(s) |->
        IF \E k \in 1..26 : Ch(LowerChars, k) = Ch(s, i)
        THEN Ch(UpperChars, CHOOSE k \in 1..26 : Ch(LowerChars, k) = Ch(s, i))
        ELSE Ch(s, i)]

UpperStr(s) == JoinStr("", Upper(s))

\* s with its first letter in upper case
Capitalized(s) == IF s = "" THEN "" ELSE UpperStr(Ch(s, 1)) \o SubSeq(s, 2, Len(s))

Pads == {"", " "}

GradeWords ==
    {"JSS", "jss", "Js", "jS", "Junior Secondary", "junior SECONDARY",
     "Primary", "PRIMARY", "pri", "Pri", "Grade", "Junior", "Basic"}

GradeSecondWords == {"", "primary ", "JS ", "Pri "}

GradeFirstDigits == {"", "0", "1", "3", "4", "6", "7", SuperscriptTwo}

GradeSecondDigits == {"", "2", "5", SuperscriptTwo}

GradeInputs ==
    { p \o w \o " " \o v \o d \o e \o q :
        p \in Pads, w \in GradeWords, v \in GradeSecondWords,
        d \in GradeFirstDigits, e \in GradeSecondDigits, q \in Pads }
    \cup {LowerPrimary, UpperPrimary, JuniorSecondary}

SubjectWords ==
    { subject_mappings[i][1] : i \in 1..Len(subject_mappings) }
    \cup {"maths", "english studies", "mathematic", "basic  science", "physics", "c c a"}

SubjectInputs ==
    { p \o w \o q :
        p \in Pads,
        w \in UNION { {k, UpperStr(k), Capitalized(k)} : k \in SubjectWords },
        q \in Pads \cup {"\n"} }
    \cup { subject_mappings[i][2] : i \in 1..Len(subject_mappings) }

NormalizeGrade ==
    /\ ModuleLoaded
    /\ out.op = "none"
    /\ \E grade \in GradeInputs :
          \E r \in {normalize_grade(grade)} :
              /\ req' = [op |-> "normalize_grade", grade |-> grade]
              /\ out' = [op |-> "normalize_grade", raised |-> r.raised,
                         exc |-> r.exc, ret |-> r.ret]
    /\ UNCHANGED <<environ, curriculum, cache, calls>>

NormalizeSubject ==
    /\ ModuleLoaded
    /\ out.op = "none"
    /\ \E subject \in SubjectInputs :
          /\ req' = [op |-> "normalize_subject", subject |-> subject]
          /\ out' = [op |-> "normalize_subject", raised |-> FALSE, exc |-> "",
                     ret |-> normalize_subject(subject)]
    /\ UNCHANGED <<environ, curriculum, cache, calls>>

InitNormalize ==
    /\ environ = Offline
    /\ curriculum = MissingFile
    /\ cache = EmptyCache
    /\ calls = 0
    /\ req = NoReq
    /\ out = NoOut

NextNormalize == NormalizeGrade \/ NormalizeSubject

SpecNormalize == InitNormalize /\ [][NextNormalize]_vars

\* the requested grade holds a junior secondary term in some letter case
NamesJunior ==
    \E term \in {"jss", "junior secondary", "js"} : Contains(Lower(req.grade), term)

\* the requested grade holds "primary" or "pri" in some letter case
NamesPrimary ==
    Contains(Lower(req.grade), "primary") \/ Contains(Lower(req.grade), "pri")

\* C11: a grade that holds "jss", "junior secondary" or "js" in any letter
\* case normalizes to the junior secondary key, whatever else it holds.
JuniorTermsWin ==
    (out.op = "normalize_grade" /\ NamesJunior)
        => ~out.raised /\ out.ret = JuniorSecondary

JuniorTermsWitness ==
    /\ out.op = "normalize_grade"
    /\ req.grade = "Js primary 4"
    /\ out.ret = JuniorSecondary

\* the first decimal digit of s, "" when there is none
FirstDecimalDigit(s) ==
    LET idx == {i \in 1..Len(s) : Ch(s, i) \in Digits}
    IN  IF idx = {} THEN ""
        ELSE Ch(s, CHOOSE i \in idx : \A j \in idx : i <= j)

\* C12: a grade that holds "primary" or "pri" and no junior secondary term
\* normalizes by its first decimal digit: 1 to 3 give the lower primary key,
\* 4 to 6 the upper primary key, and no decimal digit the lower primary key.
PrimaryBandByFirstDecimalDigit ==
    (out.op = "normalize_grade" /\ NamesPrimary /\ ~NamesJunior) =>
        /\ ~out.raised
        /\ FirstDecimalDigit(req.grade) \in {"1", "2", "3"} => out.ret = LowerPrimary
        /\ FirstDecimalDigit(req.grade) \in {"4", "5", "6"} => out.ret = UpperPrimary
        /\ FirstDecimalDigit(req.grade) = "" => out.ret = LowerPrimary

\* the entries of the synonym table whose name is s
EntriesNamed(s) == {i \in 1..Len(subject_mappings) : subject_mappings[i][1] = s}

\* C13 as stated: a subject that is a table entry in some letter case
\* normalizes to the key of the entry, and every other subject is returned
\* unchanged.
SubjectExactLookup ==
    out.op = "normalize_subject" =>
        /\ \A i \in EntriesNamed(Lower(req.subject)) : out.ret = subject_mappings[i][2]
        /\ EntriesNamed(Lower(req.subject)) = {} => out.ret = req.subject

\* C13 amended: a subject that, with the white space around it removed, is a
\* table entry in some letter case normalizes to the key of the entry, and
\* every other subject is returned unchanged, padding included.
SubjectTrimmedLookup ==
    out.op = "normalize_subject" =>
        /\ \A i \in EntriesNamed(Strip(Lower(req.subject))) :
              out.ret = subject_mappings[i][2]
        /\ EntriesNamed(Strip(Lower(req.subject))) = {} => out.ret = req.subject

SubjectTrimmedWitness ==
    /\ out.op = "normalize_subject"
    /\ req.subject = " MATHEMATICS\n"
    /\ out.ret = "maths"


\* the inputs that shape the prompt
PromptInputs(a) ==
    <<a.subject, a.grade, a.topic, a.curriculum_context, a.teacher_input,
      a.language, a.classroom_context, a.output_mode>>

\* C14: a second call answered from the cache has the prompt-shaping inputs of
\* the first call, the one that produced the cached record.
CacheHitOnlyForSameInputs ==
    [][(calls = 1 /\ req.op = "generate" /\ out'.op = "generate" /\ out'.from_cache)
          => PromptInputs(req'.args) = PromptInputs(req.args)]_vars


\* C15: a call whose lookup gives an error result (no grade, no subject, no
\* topic, no file) goes on: its context is the one line that states the
\* reason, the prompt is built with that context, and the model is invoked.
FailedLookupStillPrompts ==
    (out.op = "generate" /\ out.lookup_called /\ IsErrorResult(out.lookup)) =>
        /\ out.context = "(auto-retrieval failed: " \o Get(out.lookup, "error").s \o ")"
        /\ ~Contains(out.context, "\n")
        /\ out.prompt_built
        /\ out.prompt.curriculum_context = out.context
        /\ out.llm_called

FailedLookupWitness ==
    /\ out.op = "generate" /\ ~out.from_cache
    /\ req.args.topic = "zzz"
    /\ out.lookup_called /\ IsErrorResult(out.lookup)
    /\ Contains(out.prompt.curriculum_context, "(auto-retrieval failed: Topic 'zzz' not found")
    /\ out.llm_called /\ out.llm.gemini_tried

----------------------------------------------------------------------------
(* The browsing endpoints of main.py                                       *)

\* what an endpoint answers: the returned body, or an HTTPException
Answer(body) == [status |-> 200, detail |-> "", body |-> body]

HTTPException(status_code, detail) ==
    [status |-> status_code, detail |-> detail, body |-> JNull]

RECURSIVE ExtractKids(_, _)
RECURSIVE extract_topics_recursive(_)
\* the topic names that extract_topics_recursive appends, as a set
extract_topics_recursive(data) ==
    IF IsDict(data)
    THEN (IF HasKey(data, "TOPICS") /\ IsList(Get(data, "TOPICS"))
          THEN { Get(item, "TOPIC NAME") :
                   item \in { it \in Elems(Get(data, "TOPICS")) :
                                 IsDict(it) /\ HasKey(it, "TOPIC NAME") } }
          ELSE {})
         \cup ExtractKids(data.kids, 1)
    ELSE IF IsList(data) THEN ExtractKids(data.kids, 1)
    ELSE {}

\* the recursion into the dictionaries and lists among kids[i..]
ExtractKids(kids, i) ==
    IF i > Len(kids) THEN {}
    ELSE (IF IsDict(kids[i]) \/ IsList(kids[i])
          THEN extract_topics_recursive(kids[i]) ELSE {})
         \cup ExtractKids(kids, i + 1)

\* sorted(list(set(topics))): the answers it can give.  The sorted list of a
\* set of strings is kept as the set; a name that is a dictionary or a list
\* cannot be hashed, and names of different types cannot be ordered, with a
\* message that depends on the order in which the set is iterated.
SortedTopics(grade, subject, topics) ==
    IF \E n \in topics : IsDict(n) \/ IsList(n)
    THEN { HTTPException(500, "Error extracting topics: unhashable type: '"
                              \o PyTypeName(n) \o "'") :
             n \in { x \in topics : IsDict(x) \/ IsList(x) } }
    ELSE IF \E n, k \in topics : PyTypeName(n) # PyTypeName(k)
    THEN { HTTPException(500, "Error extracting topics: '<' not supported between instances of '"
                              \o PyTypeName(p[1]) \o "' and '" \o PyTypeName(p[2]) \o "'") :
             p \in { q \in topics \X topics : PyTypeName(q[1]) # PyTypeName(q[2]) } }
    ELSE IF Cardinality(topics) > 1 /\ \E n \in topics : PyTypeName(n) = "NoneType"
    THEN { HTTPException(500, "Error extracting topics: '<' not supported between instances of 'NoneType' and 'NoneType'") }
    ELSE { Answer([grade |-> grade, subject |-> subject, topics |-> topics]) }

\* lines 144-172 of get_topics, for the grade entry
TopicsOfSubject(grade_data, grade, subject) ==
    LET has == MemberTest(subject, grade_data)
        available_subjects == KeysOf(grade_data)
        subject_data == Subscript(grade_data, subject)
    IN  IF has.raised THEN {HTTPException(500, "Error extracting topics: " \o has.exc)}
        ELSE IF has.ret = JLit("false")
        THEN IF available_subjects.raised
             THEN {HTTPException(500, "Error extracting topics: " \o available_subjects.exc)}
             ELSE {HTTPException(404, "Subject '" \o subject \o "' not found in " \o grade
                                      \o ". Available subjects: "
                                      \o ListRepr(available_subjects.ret))}
        ELSE IF subject_data.raised
        THEN {HTTPException(500, "Error extracting topics: " \o subject_data.exc)}
        ELSE SortedTopics(grade, subject, extract_topics_recursive(subject_data.ret))

\* lines 135-172 of get_topics, for the loaded document
TopicsOfGrade(curriculum_data, grade, subject) ==
    LET has == MemberTest(grade, curriculum_data)
        available_grades == KeysOf(curriculum_data)
        grade_data == Subscript(curriculum_data, grade)
    IN  IF has.raised THEN {HTTPException(500, "Error extracting topics: " \o has.exc)}
        ELSE IF has.ret = JLit("false")
        THEN IF available_grades.raised
             THEN {HTTPException(500, "Error extracting topics: " \o available_grades.exc)}
             ELSE {HTTPException(404, "Grade '" \o grade \o "' not found. Available grades: "
                                      \o ListRepr(available_grades.ret))}
        ELSE IF grade_data.raised
        THEN {HTTPException(500, "Error extracting topics: " \o grade_data.exc)}
        ELSE TopicsOfSubject(grade_data.ret, grade, subject)

\* GET /curriculum/{grade}/{subject}/topics: the answers it can give
get_topics(file, grade, subject) ==
    IF ~file.exists THEN {HTTPException(500, "Curriculum map not found")}
    ELSE IF ~file.loads
    THEN {HTTPException(500, "Error extracting topics: Expecting value: line 1 column 1 (char 0)")}
    ELSE TopicsOfGrade(file.data, grade, subject)

\* lines 315-325 of get_subjects_for_grade, for the loaded document
SubjectsOfGrade(curriculum_data, grade) ==
    LET has == MemberTest(grade, curriculum_data)
        available_grades == KeysOf(curriculum_data)
        grade_data == Subscript(curriculum_data, grade)
    IN  IF has.raised THEN HTTPException(500, "Error loading subjects: " \o has.exc)
        ELSE IF has.ret = JLit("false")
        THEN IF available_grades.raised
             THEN HTTPException(500, "Error loading subjects: " \o available_grades.exc)
             ELSE HTTPException(404, "Grade '" \o grade \o "' not found. Available grades: "
                                     \o ListRepr(available_grades.ret))
        ELSE IF grade_data.raised
        THEN HTTPException(500, "Error loading subjects: " \o grade_data.exc)
        ELSE IF KeysOf(grade_data.ret).raised
        THEN HTTPException(500, "Error loading subjects: " \o KeysOf(grade_data.ret).exc)
        ELSE Answer([grade |-> grade, subjects |-> KeysOf(grade_data.ret).ret])

\* GET /curriculum/{grade}/subjects
get_subjects_for_grade(file, grade) ==
    IF ~file.exists THEN HTTPException(500, "Curriculum map not found")
    ELSE IF ~file.loads
    THEN HTTPException(500, "Error loading subjects: Expecting value: line 1 column 1 (char 0)")
    ELSE SubjectsOfGrade(file.data, grade)

BrowseGrades == LookupGrades \cup {UpperPrimary, JuniorSecondary}

BrowseSubjects == LookupSubjects \cup {"english_studies"}

GetSubjectsForGrade ==
    /\ ModuleLoaded
    /\ out.op = "none"
    /\ \E grade \in BrowseGrades :
          \E r \in {get_subjects_for_grade(curriculum, grade)} :
              /\ req' = [op |-> "subjects", grade |-> grade]
              /\ out' = [op |-> "subjects", status |-> r.status, detail |-> r.detail,
                         body |-> r.body]
    /\ UNCHANGED <<environ, curriculum, cache, calls>>

GetTopics ==
    /\ ModuleLoaded
    /\ out.op = "none"
    /\ \E grade \in BrowseGrades, subject \in BrowseSubjects :
          \E r \in get_topics(curriculum, grade, subject) :
              /\ req' = [op |-> "topics", grade |-> grade, subject |-> subject]
              /\ out' = [op |-> "topics", status |-> r.status, detail |-> r.detail,
                         body |-> r.body]
    /\ UNCHANGED <<environ, curriculum, cache, calls>>

NextBrowse == GetSubjectsForGrade \/ GetTopics

SpecBrowse == InitLookup /\ [][NextBrowse]_vars

\* C16: a grade that the lookup resolves to a grade of the document has its
\* subjects listed, and a grade and subject that the lookup resolves to a
\* subject of the document (whose topic names are strings) have topics of
\* that subject listed, those under its themes and sub-themes among them.
BrowsingSharesNormalizer ==
    /\ (out.op = "subjects" /\ GradeKnown /\ IsDict(ReqGradeData)) =>
          /\ out.status = 200
          /\ out.body.subjects = KeysOf(ReqGradeData).ret
    /\ (out.op = "topics" /\ SubjectKnown /\ NamesAreStrings(ReqSubjectData)) =>
          /\ out.status = 200
          /\ out.body.topics
               \subseteq { Get(n, "TOPIC NAME") : n \in TopicRecords(ReqSubjectData) }
          /\ \A n \in ChainTopics(ReqSubjectData) : Get(n, "TOPIC NAME") \in out.body.topics

----------------------------------------------------------------------------
(* POST /generate-plan of main.py and the form of frontend/app.py          *)

\* raise HTTPException(status_code=500, detail=detail), detail a JSON value
ServerError(detail) == [status |-> 500, detail |-> detail, body |-> JNull]

\* lines 244-259 of generate_plan: the response for what generate_lesson_plan
\* returned
PlanResponse(r, result) ==
    LET has == MemberTest("error", result)
        error_detail == Subscript(result, "error")
    IN  IF has.raised
        THEN ServerError(JStr("Error generating lesson plan: " \o has.exc))
        ELSE IF has.ret = JLit("true")
        THEN IF error_detail.raised
             THEN ServerError(JStr("Error generating lesson plan: " \o error_detail.exc))
             ELSE ServerError(error_detail.ret)
        ELSE [status |-> 200, detail |-> JNull,
              body |-> [grade |-> r.grade, subject |-> r.subject, topic |-> r.topic,
                        lesson_plan |-> result, from_cache |-> FALSE]]

\* lines 234-259 of generate_plan: generate_lesson_plan ended as core tells
PlanGenerated(r, core) ==
    IF core.raised
    THEN [resp |-> ServerError(JStr("Error generating lesson plan: " \o core.exc)),
          core |-> core]
    ELSE [resp |-> [PlanResponse(r, core.result) EXCEPT
                       !.body = IF @ = JNull THEN @
                                ELSE [@ EXCEPT !.from_cache = core.from_cache]],
          core |-> core]

\* lines 225-259 of generate_plan: the first lookup ended as looked tells
Retrieved(r, looked, core) ==
    IF looked.raised
    THEN [resp |-> ServerError(JStr("Curriculum retrieval failed: " \o looked.exc)),
          core |-> NotStarted(core.files)]
    ELSE PlanGenerated(r, core)

\* POST /generate-plan with the request r = [grade, subject, topic,
\* teacher_input]: the response and what generate_lesson_plan did
generate_plan(r, config, file, files, gemini, http, disk) ==
    IF ~file.exists
    THEN [resp |-> ServerError(JStr("Curriculum map not found at data/curriculum_map.json")),
          core |-> NotStarted(files)]
    ELSE Retrieved(r, get_curriculum_objectives(file, r.grade, r.subject, r.topic),
                   generate_lesson_plan(
                       [BaseArgs EXCEPT !.subject = r.subject, !.grade = r.grade,
                                        !.topic = r.topic,
                                        !.teacher_input = r.teacher_input],
                       config, file, files, gemini, http, disk))

\* something the page shows: the widget and its content, a JSON value
Widget(widget, text) == [widget |-> widget, text |-> text]

\* lines 85-87, 91-95: the report of a request that failed (the backquotes
\* around the URL are left out)
ConnectionError(e) ==
    << Widget("error", JStr("API CONNECTION ERROR. Server URL: https://klassiq.onrender.com")),
       Widget("code", JStr("Details: " \o e)) >>

\* lines 103-119: what the page shows for the value of data.get("result", {})
ShowResult(result) ==
    IF MemberTest("error", result).ret = JLit("true")
    THEN << Widget("error", JStr("GENERATION FAILED. The backend encountered an error.")),
            Widget("code", GetOr(result, "error", JStr("Unknown error"))) >>
         \o (IF HasKey(result, "raw")
             THEN << Widget("subheader", JStr("Raw LLM Output (for Debug):")),
                     Widget("code", Get(result, "raw")) >>
             ELSE << >>)
    ELSE IF Truthy(result)
    THEN << Widget("success", JStr("Lesson Plan Generated Successfully!")),
            Widget("plan", result) >>
    ELSE << >>

\* lines 88-89: data.get("result", {}) for the body of the response
ExtractResult(data) ==
    IF "result" \in DOMAIN data THEN data.result ELSE JObj(<<>>, <<>>)

\* lines 84-119: what the page shows for the response resp
ShowResponse(resp) ==
    IF resp.status >= 400
    THEN ConnectionError("500 Server Error: Internal Server Error for url: https://klassiq.onrender.com/generate-plan")
    ELSE ShowResult(ExtractResult(resp.body))

\* lines 62-119: the form is submitted with the fields form; the network does
\* net and the server answers done
Submitted(form, net, done) ==
    IF form.subject = "" \/ form.topic = ""
    THEN [shown |-> << Widget("error", JStr("Please enter a **Subject** and a **Topic** to generate a plan.")) >>,
          posted |-> FALSE]
    ELSE IF net = "timeout"
    THEN [shown |-> ConnectionError("Read timed out. (read timeout=90)"),
          posted |-> TRUE]
    ELSE [shown |-> ShowResponse(done.resp), posted |-> TRUE]

HostRequest(subject, grade, topic, teacher_input) ==
    [subject |-> subject, grade |-> grade, topic |-> topic,
     teacher_input |-> teacher_input]

BaseRequest == HostRequest("Math", "Primary 4", "fractions", None)

\* the requests of the model: the request, what the providers do, what the
\* disk does
HostScenarios ==
    { <<r, GeminiGood, HttpRaises, "ok">> :
        r \in { BaseRequest,
                [BaseRequest EXCEPT !.subject = "Unknown Subject"],
                [BaseRequest EXCEPT !.grade = "JSS 1"],
                [BaseRequest EXCEPT !.topic = "zzz"],
                [BaseRequest EXCEPT !.topic = ""],
                [BaseRequest EXCEPT !.teacher_input = Some("")],
                [BaseRequest EXCEPT !.teacher_input = Some("chalk and stones")] } }
    \cup { <<BaseRequest, g, HttpRaises, "ok">> :
             g \in GeminiOutcomes \cup {GeminiText("{\"error\": \"no plan\"}"),
                                       GeminiText("\"an error\""),
                                       GeminiText("[\"error\"]"),
                                       GeminiText("null"), GeminiText("7")} }
    \cup { <<BaseRequest, GeminiRaises, h, "ok">> : h \in HttpOutcomes }
    \cup { <<BaseRequest, GeminiGood, HttpRaises, "denied">> }

\* the requests that follow the first one in a process
HostLaterScenarios ==
    { <<BaseRequest, g, HttpRaises, "ok">> :
        g \in {GeminiGood, GeminiText("Sorry, I cannot help with that.")} }

\* the processes of the server: an environment and a curriculum map
HostProcesses ==
    { <<c, PlainFile>> : c \in {BothProviders, GeminiOnly, HttpOnly, Offline, NoModelName} }
    \cup { <<BothProviders, MissingFile>> }

GeneratePlan ==
    /\ ModuleLoaded
    /\ calls < MaxCalls
    /\ \E sc \in IF calls = 0 THEN HostScenarios ELSE HostLaterScenarios :
          \E done \in {generate_plan(sc[1], environ, curriculum, cache,
                                     sc[2], sc[3], sc[4])} :
              /\ req' = [op |-> "generate_plan", request |-> sc[1], gemini |-> sc[2],
                         http |-> sc[3], disk |-> sc[4]]
              /\ out' = [op |-> "generate_plan", status |-> done.resp.status,
                         detail |-> done.resp.detail, body |-> done.resp.body,
                         returned |-> done.core.returned, raised |-> done.core.raised,
                         result |-> done.core.result]
              /\ cache' = done.core.files
    /\ calls' = calls + 1
    /\ UNCHANGED <<environ, curriculum>>

\* the front end runs in its own process; the server it posts to is this one
Submit ==
    /\ ModuleLoaded
    /\ calls < MaxCalls
    /\ \E sc \in IF calls = 0 THEN HostScenarios ELSE HostLaterScenarios,
          net \in IF calls = 0 THEN {"ok", "timeout"} ELSE {"ok"} :
          \E done \in {generate_plan([sc[1] EXCEPT !.teacher_input = Some(OrElse(@, ""))],
                                     environ, curriculum, cache, sc[2], sc[3], sc[4])} :
              \E page \in {Submitted(sc[1], net, done)} :
                  /\ req' = [op |-> "submit", request |-> sc[1], gemini |-> sc[2],
                             http |-> sc[3], disk |-> sc[4], net |-> net]
                  /\ out' = [op |-> "submit", shown |-> page.shown,
                             posted |-> page.posted,
                             status |-> IF page.posted /\ net = "ok"
                                        THEN done.resp.status ELSE 0,
                             lesson_plan |-> IF page.posted /\ net = "ok"
                                                /\ done.resp.status = 200
                                             THEN done.resp.body.lesson_plan ELSE JNull,
                             extracted |-> IF page.posted /\ net = "ok"
                                              /\ done.resp.status = 200
                                           THEN ExtractResult(done.resp.body) ELSE JNull,
                             returned |-> page.posted /\ done.core.returned,
                             raised |-> page.posted /\ done.core.raised,
                             result |-> IF page.posted THEN done.core.result ELSE JNull]
                  /\ cache' = IF page.posted THEN done.core.files ELSE cache
    /\ calls' = calls + 1
    /\ UNCHANGED <<environ, curriculum>>

NextHost == GeneratePlan \/ Submit

InitHost ==
    /\ \E p \in HostProcesses : environ = p[1] /\ curriculum = p[2]
    /\ cache = EmptyCache
    /\ calls = 0
    /\ req = NoReq
    /\ out = NoOut

SpecHost == InitHost /\ [][NextHost]_vars

\* the generation ended with an error record
EndedInErrorRecord ==
    out.returned /\ IsDict(out.result) /\ HasKey(out.result, "error")

\* the response holds the value v
Carries(v) ==
    \/ v \in Nodes(out.detail)
    \/ out.status = 200 /\ v \in Nodes(out.body.lesson_plan)

\* the page shows the value v
Shows(v) == \E i \in 1..Len(out.shown) : out.shown[i].text = v

\* C17: when the generation ends with an error record, the response of
\* /generate-plan holds the error message and, when the record has one, the
\* raw text, and the page of the front end shows them.
HostDeliversErrorAndRaw ==
    /\ (out.op = "generate_plan" /\ EndedInErrorRecord) =>
          /\ Carries(Get(out.result, "error"))
          /\ HasKey(out.result, "raw") => Carries(Get(out.result, "raw"))
    /\ (out.op = "submit" /\ EndedInErrorRecord) =>
          /\ Shows(Get(out.result, "error"))
          /\ HasKey(out.result, "raw") => Shows(Get(out.result, "raw"))

----------------------------------------------------------------------------
(* generate_lesson_plan, step by step: the waits for the providers         *)

\* generate_content does not return: line 308 passes no timeout
GeminiHangs == [kind |-> "hang", text |-> ""]

\* the calls of the model, a provider that does not answer among them
LiveScenarios ==
    { <<a, g, h, "ok">> :
        a \in { BaseArgs, [BaseArgs EXCEPT !.use_cache = FALSE],
                [BaseArgs EXCEPT !.curriculum_context = Some("Pupils know halves.")] },
        g \in { GeminiGood, GeminiText("Sorry, I cannot help with that."),
                GeminiEmpty, GeminiRaises, GeminiHangs },
        h \in { HttpRaises, HttpData(ChatBody(JStr(JsonDumps(FullPlan)))) } }

LiveLaterScenarios ==
    { <<BaseArgs, g, HttpRaises, "ok">> : g \in {GeminiGood, GeminiHangs} }

\* the processes of the model
LiveProcesses ==
    { <<c, PlainFile>> : c \in {BothProviders, GeminiOnly, HttpOnly, Offline, NoModelName} }
    \cup { <<BothProviders, MissingFile>> }

\* the call in req, once the providers have done what req tells
Finished(r) ==
    [op |-> "generate", raised |-> r.raised, exc |-> r.exc, returned |-> r.returned,
     from_cache |-> r.from_cache, result |-> r.result, llm_called |-> r.llm_called,
     gemini_tried |-> r.llm.gemini_tried, http_tried |-> r.llm.http_tried,
     fallback |-> r.llm.fallback]

\* the call waits at pc: for generate_content (line 308) or for requests.post
\* (line 340).  What it does once the providers have answered is a function
\* of the state at its start and of their answers: r is that outcome.
Waiting(pc, r) ==
    [op |-> "calling", pc |-> pc, http_next |-> r.llm.http_tried,
     done |-> Finished(r), files |-> r.files]

\* lines 475-534: the call starts; it ends at once when the cache answers or
\* when it raises before the model is called, and when no provider is
\* configured; otherwise it waits for the first provider
BeginGenerate ==
    /\ ModuleLoaded
    /\ calls < MaxCalls
    /\ out.op # "calling"
    /\ \E sc \in IF calls = 0 THEN LiveScenarios ELSE LiveLaterScenarios :
          \E r \in {generate_lesson_plan(sc[1], environ, curriculum, cache,
                                         sc[2], sc[3], sc[4])} :
              /\ req' = [op |-> "generate", args |-> sc[1], gemini |-> sc[2],
                         http |-> sc[3], disk |-> sc[4]]
              /\ IF r.llm_called /\ r.llm.gemini_tried
                 THEN out' = Waiting("gemini", r) /\ cache' = cache
                 ELSE IF r.llm_called /\ r.llm.http_tried
                 THEN out' = Waiting("http", r) /\ cache' = cache
                 ELSE out' = Finished(r) /\ cache' = r.files
    /\ calls' = calls + 1
    /\ UNCHANGED <<environ, curriculum>>

\* lines 308-319: generate_content returns or raises; the call ends with the
\* reply, or goes on to the HTTP provider, or ends with the template
GeminiAnswers ==
    /\ out.op = "calling"
    /\ out.pc = "gemini"
    /\ req.gemini.kind # "hang"
    /\ IF out.http_next
       THEN out' = [out EXCEPT !.pc = "http"] /\ cache' = cache
       ELSE out' = out.done /\ cache' = out.files
    /\ UNCHANGED <<environ, curriculum, calls, req>>

\* lines 340-354: requests.post returns or raises, after 30 s at the latest
HttpAnswers ==
    /\ out.op = "calling"
    /\ out.pc = "http"
    /\ out' = out.done
    /\ cache' = out.files
    /\ UNCHANGED <<environ, curriculum, calls, req>>

InitLive ==
    /\ \E p \in LiveProcesses : environ = p[1] /\ curriculum = p[2]
    /\ cache = EmptyCache
    /\ calls = 0
    /\ req = NoReq
    /\ out = NoOut

NextLive == BeginGenerate \/ GeminiAnswers \/ HttpAnswers

\* a call that has started runs on as long as it can: the interpreter does
\* not stop between the statements of a call
SpecLive ==
    InitLive /\ [][NextLive]_vars /\ WF_vars(GeminiAnswers) /\ WF_vars(HttpAnswers)

\* C18: a call that waits for a provider ends: it returns or it raises.
GenerateEventuallyReturns ==
    (out.op = "calling") ~> (out.op = "generate")

----------------------------------------------------------------------------
(* The lookup, called again and again                                      *)

\* a record with the activities of the pupils under both of their keys
TopicEquivalent ==
    JObj(<<"TOPIC NAME", "PERFORMANCE OBJECTIVES", "PUPILS ACTIVITIES",
           "STUDENTS ACTIVITIES">>,
         <<JStr("Equivalent Fractions"), JArr(<<JStr("compare fractions")>>),
           JArr(<<JStr("copy notes")>>), JArr(<<JStr("fold paper")>>)>>)

\* subject trees with several topics that match one query: a dictionary with
\* a level under a key and themes of its own, in both key orders, a list of
\* levels, and one list of topics
OrderTrees ==
    { JObj(<<"PRIMARY 4", "THEMES">>,
           <<Level(<<TopicEquivalent>>), Get(Level(<<TopicFractions>>), "THEMES")>>),
      JObj(<<"THEMES", "PRIMARY 4">>,
           <<Get(Level(<<TopicFractions>>), "THEMES"), Level(<<TopicEquivalent>>)>>),
      JArr(<<Level(<<TopicAlgebra>>), Level(<<TopicEquivalent>>),
             Level(<<TopicFractions>>)>>),
      Level(<<TopicAlgebra, TopicFractions, TopicEquivalent>>) }

RepeatFiles ==
    { FileOf(Document(tree)) : tree \in OrderTrees } \cup
    { PlainFile, MissingFile, BrokenFile,
      FileOf(Document(LevelSecond(<<TopicAlgebra, TopicFractions>>))),
      FileOf(Document(Level(<<TopicBadName, TopicFractions>>))),
      FileOf(JArr(<<JStr(UpperPrimary)>>)) }

RepeatGrades == {"Primary 4", "Grade 9", "Primary ^"}

RepeatSubjects == {"Math", "Unknown Subject"}

RepeatTopics == {"fractions", "Algebra", "zzz"}

\* a call of the lookup in a process that has made others; again tells that
\* the arguments are those of the call before
LookupAgain ==
    /\ ModuleLoaded
    /\ calls < MaxCalls + 1
    /\ \E grade \in RepeatGrades, subject \in RepeatSubjects, topic \in RepeatTopics :
          \E r \in {get_curriculum_objectives(curriculum, grade, subject, topic)} :
              /\ req' = [op |-> "lookup", grade |-> grade, subject |-> subject,
                         topic |-> topic,
                         again |-> /\ req.op = "lookup"
                                   /\ <<req.grade, req.subject, req.topic>>
                                        = <<grade, subject, topic>>]
              /\ out' = [op |-> "lookup", raised |-> r.raised, exc |-> r.exc,
                         result |-> r.ret]
    /\ calls' = calls + 1
    /\ UNCHANGED <<environ, curriculum, cache>>

InitRepeat ==
    /\ environ = Offline
    /\ curriculum \in RepeatFiles
    /\ cache = EmptyCache
    /\ calls = 0
    /\ req = NoReq
    /\ out = NoOut

NextRepeat == LookupAgain

SpecRepeat == InitRepeat /\ [][NextRepeat]_vars

----------------------------------------------------------------------------
(* The module in a process without LLM_MODEL                               *)

\* C20: the module is loaded in every process, whether or not LLM_MODEL is
\* set, and a request to the HTTP provider made without a model name in the
\* environment names the model "default".
ModelNameOptional ==
    /\ ModuleLoaded
    /\ (/\ out.op = "generate" /\ out.llm_called /\ out.llm.http_tried
        /\ OrElse(environ.llm_model, "") = "")
          => out.llm.http_model = "default"

----------------------------------------------------------------------------
(* The prompt                                                              *)

\* C21: in the prompt of a call the teacher-input slot holds "None provided"
\* when teacher_input is None or empty and the text of the caller otherwise,
\* the output-mode slot holds "short" for the output mode "short" and "full"
\* for every other one, and the grade, subject, topic, language and classroom
\* context of the caller stand in their slots as given.
PromptSlots ==
    (out.op = "generate" /\ out.prompt_built) =>
        /\ out.prompt.teacher_input
             = IF req.args.teacher_input.none \/ req.args.teacher_input.s = ""
               THEN "None provided" ELSE req.args.teacher_input.s
        /\ out.prompt.output_mode
             = IF req.args.output_mode = "short" THEN "short" ELSE "full"
        /\ out.prompt.output_mode \in {"short", "full"}
        /\ <<out.prompt.grade, out.prompt.subject, out.prompt.topic,
             out.prompt.language, out.prompt.classroom_context>>
             = <<req.args.grade, req.args.subject, req.args.topic,
                 req.args.language, req.args.classroom_context>>

PromptSlotsWitness ==
    /\ out.op = "generate" /\ out.prompt_built
    /\ req.args.output_mode = "brief"
    /\ out.prompt.output_mode = "full"
    /\ out.prompt.teacher_input = "None provided"

----------------------------------------------------------------------------
(* The order of the search                                                 *)

RECURSIVE NaturalOrder(_)
\* the topic records of the themes of the dictionaries of a tree, as a
\* depth-first traversal meets them that takes the keys of a dictionary and
\* the elements of a list in their order
NaturalOrder(data) ==
    IF IsDict(data)
    THEN Flatten([i \in 1..Len(data.kids) |->
                     (IF data.keys[i] = "THEMES" THEN TopicsOfLevel(data) ELSE <<>>)
                     \o NaturalOrder(data.kids[i])])
    ELSE IF IsList(data)
    THEN Flatten([i \in 1..Len(data.kids) |-> NaturalOrder(data.kids[i])])
    ELSE <<>>

RECURSIVE ThemesFirstOrder(_)
\* the same records, the topics of the themes of a dictionary before all that
\* lies under its keys
ThemesFirstOrder(data) ==
    IF IsDict(data)
    THEN TopicsOfLevel(data)
         \o Flatten([i \in 1..Len(data.kids) |-> ThemesFirstOrder(data.kids[i])])
    ELSE IF IsList(data)
    THEN Flatten([i \in 1..Len(data.kids) |-> ThemesFirstOrder(data.kids[i])])
    ELSE <<>>

\* the positions of the records of seq that match the requested topic
MatchesIn(seq) ==
    {i \in 1..Len(seq) : MatchesQuery(req.topic, Get(seq[i], "TOPIC NAME").s)}

\* the lookup found the first record of seq that matches, if one does
FoundFirstOf(seq) ==
    MatchesIn(seq) # {} =>
        /\ IsSuccessResult(out.result)
        /\ Get(out.result, "topic_name")
             = Get(seq[CHOOSE i \in MatchesIn(seq) : \A j \in MatchesIn(seq) : i <= j],
                   "TOPIC NAME")

\* C22 as stated: of the records that match, the lookup returns the first one
\* of the depth-first traversal in the order of the keys and elements.
FirstMatchInNaturalOrder ==
    (out.op = "lookup" /\ SubjectKnown /\ NamesAreStrings(ReqSubjectData))
        => FoundFirstOf(NaturalOrder(ReqSubjectData))

\* C22 amended: of the records that match, the lookup returns the first one
\* of the depth-first traversal that, at every dictionary, takes the topics of
\* the themes of the dictionary itself before it goes under its keys in their
\* order.
FirstMatchThemesFirst ==
    (out.op = "lookup" /\ SubjectKnown /\ NamesAreStrings(ReqSubjectData))
        => FoundFirstOf(ThemesFirstOrder(ReqSubjectData))

FirstMatchWitness ==
    /\ out.op = "lookup" /\ SubjectKnown
    /\ req.topic = "fractions"
    /\ ReqSubjectData.keys = <<"PRIMARY 4", "THEMES">>
    /\ Cardinality(MatchesIn(ThemesFirstOrder(ReqSubjectData))) > 1
    /\ Get(out.result, "topic_name") = JStr("Fractions and Decimals")

----------------------------------------------------------------------------
(* The object inside a reply                                               *)

NoBrace(text) == ~Contains(text, "{") /\ ~Contains(text, "}")

\* the text from the first "{" through the last "}" of a text that has a "{"
\* before a "}"
FirstToLastBrace(text) ==
    LET p == CHOOSE i \in 1..Len(text) :
                 /\ Ch(text, i) = "{"
                 /\ \A j \in 1..(i - 1) : Ch(text, j) # "{"
        q == CHOOSE i \in 1..Len(text) :
                 /\ Ch(text, i) = "}"
                 /\ \A j \in (i + 1)..Len(text) : Ch(text, j) # "}"
    IN  SubSeq(text, p, q)

\* C23: when the strict parse of a reply fails and the text from its first "{"
\* through its last "}" is the JSON text of an object, the interpretation
\* gives that object and no error record of its own: an object between prose
\* without braces is found, whatever the prose.
ExtractsEmbeddedObject ==
    /\ (/\ out.op = "interpret" /\ req.origin = "dumped" /\ IsDict(req.value)
        /\ ~out.strict_ok /\ NoBrace(req.pre) /\ NoBrace(req.post))
           => (~out.raised /\ out.extract_ok /\ out.parsed = req.value)
    /\ (/\ out.op = "interpret" /\ req.reply.isStr /\ ~out.strict_ok
        /\ HasBracePair(req.reply.text)
        /\ JsonLoads(FirstToLastBrace(req.reply.text)).ok
        /\ IsDict(JsonLoads(FirstToLastBrace(req.reply.text)).v))
           => /\ ~out.raised /\ out.extract_ok
              /\ out.parsed = JsonLoads(FirstToLastBrace(req.reply.text)).v

EmbeddedObjectWitness ==
    /\ out.op = "interpret" /\ req.origin = "dumped"
    /\ req.pre = "Here is your plan: " /\ req.post = " Thanks!"
    /\ req.value = JObj(<<"a", "c">>, <<JObj(<<"b">>, <<JArr(<<>>)>>), JNull>>)
    /\ ~out.strict_ok /\ out.extract_ok
    /\ out.parsed = req.value


----------------------------------------------------------------------------
(* The context derived from a lookup                                       *)

\* the strings of a list of strings
Strings(list) == [i \in 1..Len(list.kids) |-> list.kids[i].s]

ListOfStrings(v) == IsList(v) /\ \A i \in 1..Len(v.kids) : IsStr(v.kids[i])

\* text when it has at most limit characters, else limit characters that end
\* in the marker
CutTo(text, limit) ==
    IF Len(text) <= limit THEN text ELSE SubSeq(text, 1, limit - 3) \o "..."

\* the line of a field of the lookup result, none when the field is empty
FieldLine(label, text) == IF text = "" THEN <<>> ELSE <<label \o text>>

ListLine(label, list, limit) ==
    IF Len(list.kids) = 0 THEN <<>>
    ELSE <<label \o (IF limit = 0 THEN JoinStr("; ", Strings(list))
                     ELSE CutTo(JoinStr("; ", Strings(list)), limit))>>

ContextLines(r) ==
    FieldLine("Topic: ", GetOr(r, "topic_name", JStr("")).s)
    \o ListLine("Performance Objectives: ", Get(r, "objectives"), 0)
    \o ListLine("Content: ", Get(r, "content"), 500)
    \o ListLine("Teacher Activities: ", Get(r, "teacher_activities"), 300)

StartsWith(text, prefix) == SubSeq(text, 1, Len(prefix)) = prefix

EndsWith(text, suffix) ==
    Len(text) >= Len(suffix) /\ SubSeq(text, Len(text) - Len(suffix) + 1, Len(text)) = suffix

\* the call looked the topic up, found it, and its lists hold strings
ContextDerived ==
    /\ out.op = "generate" /\ out.lookup_called /\ IsSuccessResult(out.lookup)
    /\ \A f \in {"objectives", "content", "teacher_activities"} :
           ListOfStrings(Get(out.lookup, f))

\* C24: for a successful lookup (whose lists hold strings) the derived context
\* is the topic name line, the objectives line, the content line and the
\* teacher-activities line, in this order, joined by " | ", without the lines
\* of empty fields; the content text has at most 500 characters and the
\* teacher-activities text at most 300, each ending in "..." exactly when it
\* was cut; the context starts with the topic name line.
DerivedContextLines ==
    ContextDerived =>
        /\ ~out.raised \/ out.prompt_built
        /\ out.raw_context = JoinStr(" | ", ContextLines(out.lookup))
        /\ \A f \in {<<"content", 500>>, <<"teacher_activities", 300>>} :
               \E text \in {JoinStr("; ", Strings(Get(out.lookup, f[1])))} :
                   /\ Len(CutTo(text, f[2])) <= f[2]
                   /\ Len(text) > f[2] => /\ CutTo(text, f[2]) # text
                                           /\ EndsWith(CutTo(text, f[2]), "...")
                                           /\ StartsWith(text, SubSeq(CutTo(text, f[2]), 1, f[2] - 3))
                   /\ Len(text) <= f[2] => CutTo(text, f[2]) = text
        /\ HasKey(out.lookup, "topic_name")
               => StartsWith(out.raw_context, "Topic: " \o Get(out.lookup, "topic_name").s)

DerivedContextWitness ==
    /\ ContextDerived
    /\ curriculum = MediumFile
    /\ Len(JoinStr("; ", Strings(Get(out.lookup, "content")))) = 604
    /\ Len(JoinStr("; ", Strings(Get(out.lookup, "teacher_activities")))) = 322
    /\ Len(out.raw_context)
         = Len("Topic: Fractions | Performance Objectives: identify fractions; add decimals")
           + Len(" | Content: ") + 500 + Len(" | Teacher Activities: ") + 300
    /\ EndsWith(out.raw_context, "...")


----------------------------------------------------------------------------
(* The result of a match                                                   *)

\* the field of a record, or an empty list when the record has no such key
FieldOrEmpty(rec, key) == IF HasKey(rec, key) THEN Get(rec, key) ELSE EmptyList

\* the result is what the claim says of the topic record rec
ProjectionOf(result, rec) ==
    /\ HasKey(result, "topic_name") /\ Get(result, "topic_name") = Get(rec, "TOPIC NAME")
    /\ Get(result, "objectives") = FieldOrEmpty(rec, "PERFORMANCE OBJECTIVES")
    /\ Get(result, "content") = FieldOrEmpty(rec, "CONTENT")
    /\ Get(result, "teacher_activities") = FieldOrEmpty(rec, "TEACHER ACTIVITIES")
    /\ Get(result, "resources") = FieldOrEmpty(rec, "TEACHING AND LEARNING RESOURCES")
    /\ Get(result, "student_activities") =
           IF HasKey(rec, "STUDENTS ACTIVITIES") THEN Get(rec, "STUDENTS ACTIVITIES")
           ELSE IF HasKey(rec, "PUPILS ACTIVITIES") THEN Get(rec, "PUPILS ACTIVITIES")
           ELSE EmptyList

\* C25: a lookup that matches a topic record returns a result without an
\* error key that holds the record's topic name and, for objectives, content,
\* teacher_activities and resources, the record's field or an empty list;
\* student_activities is the record's STUDENTS ACTIVITIES when it has that
\* key, else its PUPILS ACTIVITIES when it has that key, else an empty list.
MatchIsProjected ==
    (out.op = "lookup" /\ SubjectKnown /\ NamesAreStrings(ReqSubjectData)
       /\ MatchesIn(ThemesFirstOrder(ReqSubjectData)) # {})
      => /\ ~out.raised
         /\ IsSuccessResult(out.result)
         /\ \A f \in FiveFields \cup {"topic_name"} : HasKey(out.result, f)
         /\ \E rec \in ChainTopics(ReqSubjectData) :
                /\ MatchesQuery(req.topic, Get(rec, "TOPIC NAME").s)
                /\ ProjectionOf(out.result, rec)

MatchProjectedWitness ==
    /\ out.op = "lookup" /\ SubjectKnown
    /\ req.topic = "fractions"
    /\ Get(out.result, "topic_name") = JStr("Equivalent Fractions")
    /\ Get(out.result, "student_activities") = JArr(<<JStr("fold paper")>>)
    /\ Get(out.result, "content") = EmptyList

\* a record of the older sources is projected from its legacy key
LegacyKeyWitness ==
    /\ out.op = "lookup" /\ SubjectKnown
    /\ req.topic = "Algebra"
    /\ Get(out.result, "topic_name") = JStr(" Algebra ")
    /\ Get(out.result, "student_activities") = JArr(<<JStr("copy notes")>>)


----------------------------------------------------------------------------
(* merge_curriculums.py: the script that builds curriculum_map.json        *)

\* lines 39-58 for one level: the warnings logged; every branch continues
LevelWarnings(level_name, level_data) ==
    IF ~IsDict(level_data) THEN <<>>
    ELSE IF ~HasKey(level_data, "THEMES")
    THEN <<"Level " \o level_name \o " missing THEMES">>
    ELSE IF ~IsList(Get(level_data, "THEMES"))
    THEN <<"Level " \o level_name \o " THEMES is not a list">>
    ELSE Flatten([i \in 1..Len(Get(level_data, "THEMES").kids) |->
                    IF /\ IsDict(Get(level_data, "THEMES").kids[i])
                       /\ \/ ~HasKey(Get(level_data, "THEMES").kids[i], "THEME NAME")
                          \/ ~HasKey(Get(level_data, "THEMES").kids[i], "SUB THEMES")
                    THEN <<"Theme in " \o level_name \o " missing required keys">>
                    ELSE <<>>])

\* lines 22-63: False for a value that is no dictionary (line 35), else the
\* loop over the levels, which logs and goes on, and True (line 60)
validate_json_structure(data) ==
    IF ~IsDict(data) THEN [ret |-> FALSE, warnings |-> <<>>]
    ELSE [ret |-> TRUE,
          warnings |-> Flatten([i \in 1..Len(data.keys) |->
                                  LevelWarnings(data.keys[i], data.kids[i])])]

\* lines 66-92: the data of the file, or None
load_subject_json(file) ==
    IF ~file.exists \/ ~file.loads THEN [none |-> TRUE, v |-> JNull]
    ELSE IF validate_json_structure(file.data).ret
    THEN [none |-> FALSE, v |-> file.data]
    ELSE [none |-> TRUE, v |-> JNull]

RECURSIVE MergeFolder(_, _, _)
\* lines 132-147: the subjects of one folder, json_files from position i on
MergeFolder(json_files, i, subjects) ==
    IF i > Len(json_files) THEN subjects
    ELSE IF HasKey(subjects, json_files[i].stem)
    THEN MergeFolder(json_files, i + 1, subjects)
    ELSE IF load_subject_json(json_files[i].file).none
    THEN MergeFolder(json_files, i + 1, subjects)
    ELSE MergeFolder(json_files, i + 1,
                     SetKey(subjects, json_files[i].stem,
                            load_subject_json(json_files[i].file).v))

RECURSIVE MergeLevels(_, _, _)
\* lines 118-147: the levels from position i on
MergeLevels(folders, i, merged_curriculum) ==
    IF i > Len(folders) THEN merged_curriculum
    ELSE IF ~folders[i].exists THEN MergeLevels(folders, i + 1, merged_curriculum)
    ELSE MergeLevels(folders, i + 1,
                     SetKey(merged_curriculum, folders[i].level_name,
                            MergeFolder(folders[i].json_files, 1, JObj(<<>>, <<>>))))

\* lines 95-149.  base_exists: the directory parsed_jsons is there; folders:
\* the three folders of curriculum_levels, in its order
merge_curriculums(base_exists, folders) ==
    IF ~base_exists THEN Raises("FileNotFoundError")
    ELSE [raised |-> FALSE, exc |-> "", ret |-> MergeLevels(folders, 1, JObj(<<>>, <<>>))]

\* the contents of subject files
GoodSubject == JObj(<<"PRIMARY 4">>, <<Level(<<TopicFractions>>)>>)

LevelLacksThemes ==
    JObj(<<"PRIMARY 4", "PRIMARY 5">>,
         <<Level(<<TopicFractions>>), JObj(<<"title">>, <<JStr("Mathematics")>>)>>)

ThemeLacksName ==
    JObj(<<"PRIMARY 4">>,
         <<JObj(<<"THEMES">>, <<JArr(<<JObj(<<"SUB THEMES">>, <<JArr(<<>>)>>)>>)>>)>>)

ThemeLacksSubThemes ==
    JObj(<<"PRIMARY 4">>,
         <<JObj(<<"THEMES">>, <<JArr(<<JObj(<<"THEME NAME">>, <<JStr("Number")>>)>>)>>)>>)

SubjectData ==
    { GoodSubject, LevelLacksThemes, ThemeLacksName, ThemeLacksSubThemes,
      JObj(<<"PRIMARY 4">>, <<JObj(<<"THEMES">>, <<JStr("Number")>>)>>),
      JObj(<<"PRIMARY 4">>, <<LevelSecond(<<TopicAlgebra>>)>>),
      JObj(<<>>, <<>>),
      JArr(<<Level(<<TopicFractions>>)>>),
      JStr("PRIMARY 4") }

SubjectFiles == { FileOf(d) : d \in SubjectData } \cup {BrokenFile}

JsonFile(stem, file) == [stem |-> stem, file |-> file]

Folder(level_name, json_files) ==
    [level_name |-> level_name, exists |-> TRUE, json_files |-> json_files]

NoFolder(level_name) == [level_name |-> level_name, exists |-> FALSE, json_files |-> <<>>]

\* the folder of Primary 4-6 with up to two subject files
UpperPrimaryFolders ==
    { NoFolder(UpperPrimary), Folder(UpperPrimary, <<>>) }
    \cup { Folder(UpperPrimary, <<JsonFile("maths", f)>>) : f \in SubjectFiles }
    \cup { Folder(UpperPrimary, <<JsonFile("english_studies", f), JsonFile("maths", g)>>) :
             f \in SubjectFiles, g \in SubjectFiles }

OtherFolders(level_name) ==
    { NoFolder(level_name),
      Folder(level_name, <<JsonFile("maths", FileOf(GoodSubject))>>) }

FolderSets ==
    { <<a, b, c>> : a \in OtherFolders(LowerPrimary), b \in UpperPrimaryFolders,
                    c \in OtherFolders(JuniorSecondary) }

ValidateJsonStructure ==
    /\ out.op = "none"
    /\ \E data \in SubjectData :
          /\ req' = [op |-> "validate", data |-> data]
          /\ out' = [op |-> "validate", ret |-> validate_json_structure(data).ret,
                     warnings |-> validate_json_structure(data).warnings]
    /\ UNCHANGED <<environ, curriculum, cache, calls>>

LoadSubjectJson ==
    /\ out.op = "none"
    /\ \E file \in SubjectFiles :
          /\ req' = [op |-> "load", file |-> file]
          /\ out' = [op |-> "load", none |-> load_subject_json(file).none,
                     data |-> load_subject_json(file).v]
    /\ UNCHANGED <<environ, curriculum, cache, calls>>

MergeCurriculums ==
    /\ out.op = "none"
    /\ \E base_exists \in BOOLEAN, folders \in FolderSets :
          \E r \in {merge_curriculums(base_exists, folders)} :
              /\ req' = [op |-> "merge", base_exists |-> base_exists, folders |-> folders]
              /\ out' = [op |-> "merge", raised |-> r.raised, exc |-> r.exc,
                         merged |-> r.ret]
    /\ UNCHANGED <<environ, curriculum, cache, calls>>

InitMerge ==
    /\ environ = Offline
    /\ curriculum = MissingFile
    /\ cache = EmptyCache
    /\ calls = 0
    /\ req = NoReq
    /\ out = NoOut

NextMerge == ValidateJsonStructure \/ LoadSubjectJson \/ MergeCurriculums

SpecMerge == InitMerge /\ [][NextMerge]_vars

\* the expected structure: a mapping whose levels each are a mapping with a
\* THEMES list whose themes each have THEME NAME and SUB THEMES
WellStructured(data) ==
    /\ IsDict(data)
    /\ \A l \in Elems(data) :
          /\ IsDict(l) /\ HasKey(l, "THEMES") /\ IsList(Get(l, "THEMES"))
          /\ \A th \in Elems(Get(l, "THEMES")) :
                IsDict(th) /\ HasKey(th, "THEME NAME") /\ HasKey(th, "SUB THEMES")

\* C26: validate_json_structure returns True exactly for data of the expected
\* structure; load_subject_json returns None for a file whose data is not of
\* that structure; merge_curriculums leaves the subject of such a file out.
ValidatorRejectsMalformed ==
    /\ out.op = "validate" => (out.ret <=> WellStructured(req.data))
    /\ (out.op = "load" /\ req.file.loads /\ ~WellStructured(req.file.data)) => out.none
    /\ (out.op = "merge" /\ ~out.raised) =>
          \A i \in 1..Len(req.folders) : \A j \in 1..Len(req.folders[i].json_files) :
              (/\ req.folders[i].json_files[j].file.loads
               /\ ~WellStructured(req.folders[i].json_files[j].file.data))
                 => ~HasKey(Get(out.merged, req.folders[i].level_name),
                            req.folders[i].json_files[j].stem)


----------------------------------------------------------------------------
(* What the cache holds                                                    *)

HasErrorKey(v) == IsDict(v) /\ HasKey(v, "error")

\* C27: no cache entry is an error record, and no result returned with
\* from_cache = true is an error record.
ErrorRecordsNotCached ==
    /\ \A key \in DOMAIN cache :
          ~read_cache(cache, key).none => ~HasErrorKey(read_cache(cache, key).v)
    /\ (out.op = "generate" /\ out.returned /\ out.from_cache) => ~HasErrorKey(out.result)


----------------------------------------------------------------------------
(* The cache round trip                                                    *)

\* the cache key of a call
KeyOf(a) ==
    cache_key(a.subject, a.grade, a.topic, a.teacher_input, a.language,
              a.output_mode = "short")

\* the cache directory files holds value under key
Stored(files, key, value) ==
    /\ key \in DOMAIN files
    /\ ~read_cache(files, key).none
    /\ read_cache(files, key).v = value

\* a step that is a call of generate_lesson_plan
CallStep == calls' = calls + 1 /\ out'.op = "generate"

\* the call before returned a non-empty mapping that was not from the cache,
\* and this call has its key and reads the cache
HitExpected ==
    /\ CallStep
    /\ out.op = "generate" /\ out.returned /\ ~out.from_cache
    /\ IsDict(out.result) /\ Truthy(out.result)
    /\ KeyOf(req'.args) = KeyOf(req.args)
    /\ req'.args.use_cache

ServedFromCache ==
    /\ out'.returned /\ out'.from_cache
    /\ out'.result = out.result
    /\ ~out'.lookup_called /\ ~out'.llm_called

CacheOverwriteWitness ==
    /\ calls = 2 /\ out.op = "generate"
    /\ ~req.args.use_cache
    /\ out.returned /\ ~out.from_cache /\ out.llm_called
    /\ out.result = PartialPlan
    /\ Stored(cache, KeyOf(req.args), PartialPlan)


----------------------------------------------------------------------------
(* The normalizers, applied twice                                          *)

\* normalize_grade(normalize_grade(grade)): what the inner call raises, or
\* what the outer call does with what the inner call returns
normalize_grade_twice(grade) ==
    IF normalize_grade(grade).raised THEN normalize_grade(grade)
    ELSE normalize_grade(normalize_grade(grade).ret)

CanonicalGrades == {LowerPrimary, UpperPrimary, JuniorSecondary}

CanonicalSubjects == { subject_mappings[i][2] : i \in 1..Len(subject_mappings) }

\* C29: normalizing what a normalizer returned gives it back:
\* normalize_grade(normalize_grade(x)) does what normalize_grade(x) does (it
\* returns the same name, or raises the same error) and
\* normalize_subject(normalize_subject(x)) = normalize_subject(x); the three
\* canonical grade names and the canonical subject keys normalize to
\* themselves.
NormalizersIdempotent ==
    /\ out.op = "normalize_grade" =>
          /\ normalize_grade_twice(req.grade) = [raised |-> out.raised, exc |-> out.exc,
                                                 ret |-> out.ret]
          /\ ~out.raised => normalize_grade(out.ret) = Returns(out.ret)
          /\ req.grade \in CanonicalGrades => (~out.raised /\ out.ret = req.grade)
    /\ out.op = "normalize_subject" =>
          /\ normalize_subject(out.ret) = out.ret
          /\ req.subject \in CanonicalSubjects => out.ret = req.subject

\* a grade that normalization changes, and that stays as normalized
IdempotentWitness ==
    /\ out.op = "normalize_grade" /\ req.grade = " Pri primary 45 "
    /\ ~out.raised /\ out.ret = UpperPrimary
    /\ normalize_grade(out.ret) = Returns(UpperPrimary)

\* a canonical subject key, and a synonym
IdempotentSubjectWitness ==
    /\ out.op = "normalize_subject"
    /\ \/ req.subject = "basic_science_technology" /\ out.ret = req.subject
       \/ req.subject = " Math" /\ out.ret = "maths" /\ normalize_subject("maths") = "maths"


----------------------------------------------------------------------------
(* The response of /generate-plan, as the front end reads it               *)

\* the page reached render_lesson_plan with the value v
Rendered(v) == \E i \in 1..Len(out.shown) : out.shown[i] = Widget("plan", v)

\* C30: when the back end answers a submitted form with status 200 and a
\* generated lesson plan, the record the front end takes from the body of the
\* response is that lesson plan, and the front end renders it.
FrontEndReadsLessonPlan ==
    (/\ out.op = "submit" /\ out.status = 200
     /\ IsDict(out.lesson_plan) /\ Truthy(out.lesson_plan))
       => /\ out.extracted = out.lesson_plan
          /\ Rendered(out.lesson_plan)

============================================================================
